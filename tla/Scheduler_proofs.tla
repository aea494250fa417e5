-------------------------- MODULE Scheduler_proofs --------------------------
(* Theorems about Scheduler, for every set of monitors and passes, every   *)
(* lease and interval, and every value of the bounds.                      *)
EXTENDS Scheduler, TLAPS

\* The slot a claim carries is on the grid at or after the row's next run,
\* and is the latest such slot at the time of the claim (ClaimDueMonitors:
\* "a stale slot is skipped").
LEMMA LatestSlotIsLatest ==
    ASSUME NEW next \in Nat, NEW i \in Nat \ {0}, NEW t \in Nat, next <= t
    PROVE  /\ LatestSlot(next, i, t) \in Nat
           /\ next <= LatestSlot(next, i, t)
           /\ LatestSlot(next, i, t) <= t
           /\ t < LatestSlot(next, i, t) + i
<1> DEFINE d == t - next
           q == d \div i
<1>1. d \in Nat /\ t = next + d
  OBVIOUS
<1>2. q \in Nat /\ i * q <= d /\ d < i * q + i
  <2>1. q \in Int /\ d = i * q + (d % i) /\ d % i \in 0 .. (i - 1)
    BY <1>1
  <2>2. q >= 0
    BY <1>1, <2>1
  <2>. QED
    BY <2>1, <2>2, <1>1
<1>3. i * q \in Nat
  BY <1>2
<1> QED
  BY <1>1, <1>2, <1>3 DEF LatestSlot

----------------------------------------------------------------------------
(* Types. *)

\* A pass without work holds the empty claim.
LEMMA NoClaimType == NoClaim \in ClaimRec /\ 0 \in Nat
BY DEF NoClaim, ClaimRec

\* A claim moves next_run_at past a slot that is due (ClaimDue).
LEMMA ClaimType ==
    ASSUME TypeOK, NEW m \in Monitors, Due(m)
    PROVE  /\ ClaimOf(m) \in ClaimRec
           /\ ClaimOf(m).claimed = row[m].next
           /\ row[m].next <= ClaimOf(m).slot
           /\ ClaimOf(m).slot <= now
<1>1. /\ row[m].next \in Nat /\ row[m].interval \in Nat \ {0}
      /\ now \in Nat /\ row[m].next <= now
  BY SchedulerAssumption DEF TypeOK, Row, Due
<1> QED
  BY <1>1, LatestSlotIsLatest DEF ClaimOf, ClaimRec

\* What the statements of the repository do to one row.
LEMMA RowUpdates ==
    ASSUME NEW r \in Row, NEW n \in Nat, NEW c \in ClaimRec
    PROVE  /\ [r EXCEPT !.lease = n] \in Row
           /\ [r EXCEPT !.lease = n].lease = n
           /\ [r EXCEPT !.lease = n].next = r.next
           /\ [r EXCEPT !.lease = n].exists = r.exists
           /\ [r EXCEPT !.lease = n].active = r.active
           /\ Completed(r, c) \in Row
           /\ Completed(r, c).next = IF r.exists THEN NextRun(r, c) ELSE r.next
           /\ Completed(r, c).exists = r.exists
           /\ Completed(r, c).active = r.active
<1>1. NextRun(r, c) \in Nat
  <2>1. r.next \in Nat /\ r.interval \in Nat /\ c.slot \in Nat
    BY SchedulerAssumption DEF Row, ClaimRec
  <2> QED
    BY <2>1 DEF NextRun
<1> QED
  BY <1>1 DEF Completed, Row

\* Every variable keeps its type, whatever the interleaving of passes,
\* faults, edits and the clock.
THEOREM SchedulerTypeOK == Spec => []TypeOK
<1> USE SchedulerAssumption
<1>1. Init => TypeOK
  <2> SUFFICES ASSUME Init PROVE TypeOK
    OBVIOUS
  <2>1. UNION {{NewRow(i, n) : n \in 1 .. i} : i \in Intervals} \subseteq Row
    <3> SUFFICES ASSUME NEW r \in UNION {{NewRow(i, n) : n \in 1 .. i} : i \in Intervals}
                 PROVE  r \in Row
      BY Zenon
    <3>1. PICK i \in Intervals : r \in {NewRow(i, n) : n \in 1 .. i}
      BY Zenon
    <3>2. PICK n \in 1 .. i : r = NewRow(i, n)
      BY <3>1, Zenon
    <3>3. i \in Nat /\ n \in Nat
      OBVIOUS
    <3> QED
      BY <3>2, <3>3 DEF NewRow, Row
  <2>2. row \in [Monitors -> Row]
    BY <2>1, Zenon DEF Init
  <2>3. claim \in [Passes -> [Monitors -> ClaimRec]]
    BY NoClaimType DEF Init, NoClaims
  <2>4. sent \in [Monitors -> Seq(Nat)] /\ owed \in [Monitors -> Nat]
    BY DEF Init
  <2>5. /\ now \in Nat \ {0} /\ at \in [Passes -> Nat]
        /\ edits \in Nat /\ faults \in Nat
    BY DEF Init
  <2>6. pc \in [Passes -> {"idle", "probing", "answered", "failed"}] /\ overrun \in BOOLEAN
    BY Zenon DEF Init
  <2> QED
    BY <2>2, <2>3, <2>4, <2>5, <2>6, Zenon DEF TypeOK
<1>2. TypeOK /\ [Next]_vars => TypeOK'
  <2> SUFFICES ASSUME TypeOK, [Next]_vars PROVE TypeOK'
    OBVIOUS
  <2>1. ASSUME NEW p \in Passes, Claim(p) PROVE TypeOK'
    <3>1. PICK S \in SUBSET DueSet :
            /\ row' = [m \in Monitors |->
                         IF m \in S THEN [row[m] EXCEPT !.lease = now + Lease] ELSE row[m]]
            /\ claim' = [claim EXCEPT ![p] =
                           [m \in Monitors |-> IF m \in S THEN ClaimOf(m) ELSE NoClaim]]
      BY <2>1 DEF Claim
    <3>2. \A m \in S : m \in Monitors /\ ClaimOf(m) \in ClaimRec
      BY ClaimType DEF DueSet
    <3>3. claim' \in [Passes -> [Monitors -> ClaimRec]]
      BY <3>1, <3>2 DEF TypeOK, NoClaim, ClaimRec
    <3>4. row' \in [Monitors -> Row]
      <4>1. now + Lease \in Nat
        BY DEF TypeOK
      <4>2. \A m \in Monitors : [row[m] EXCEPT !.lease = now + Lease] \in Row
        BY <4>1, RowUpdates, NoClaimType DEF TypeOK
      <4> QED
        BY <3>1, <4>2 DEF TypeOK
    <3>5. now' = now /\ sent' = sent /\ owed' = owed /\ overrun' = overrun
          /\ edits' = edits /\ faults' = faults
      BY <2>1 DEF Claim, bounds
    <3>6. /\ pc' \in [Passes -> {"idle", "probing", "answered", "failed"}]
          /\ at' \in [Passes -> Nat]
      BY <2>1 DEF Claim, TypeOK
    <3> QED
      BY <3>3, <3>4, <3>5, <3>6 DEF TypeOK
  <2>2. ASSUME NEW p \in Passes, Probe(p) PROVE TypeOK'
    BY <2>2 DEF Probe, TypeOK, bounds
  <2>3. ASSUME NEW p \in Passes, PassEnds(p)
        PROVE  /\ pc' \in [Passes -> {"idle", "probing", "answered", "failed"}]
               /\ at' \in [Passes -> Nat]
               /\ claim' \in [Passes -> [Monitors -> ClaimRec]]
    BY <2>3 DEF PassEnds, TypeOK, NoClaims, NoClaim, ClaimRec
  <2>4. ASSUME NEW p \in Passes, Relay(p) PROVE TypeOK'
    <3>1. \A m \in Monitors : /\ row[m] \in Row /\ claim[p][m] \in ClaimRec
                              /\ sent[m] \in Seq(Nat) /\ owed[m] \in Nat
      BY DEF TypeOK
    <3>2. \A m \in Monitors : Completed(row[m], claim[p][m]) \in Row
      BY <3>1, RowUpdates
    <3>3. row' \in [Monitors -> Row]
      BY <2>4, <3>1, <3>2 DEF Relay
    <3>4. sent' \in [Monitors -> Seq(Nat)] /\ owed' \in [Monitors -> Nat]
      <4>1. \A m \in Monitors : Append(sent[m], claim[p][m].slot) \in Seq(Nat)
        BY <3>1 DEF ClaimRec
      <4> QED
        BY <2>4, <3>1, <4>1 DEF Relay
    <3> QED
      BY <2>3, <2>4, <3>3, <3>4 DEF Relay, TypeOK, bounds
  <2>5. ASSUME NEW p \in Passes, RelayFails(p) PROVE TypeOK'
    BY <2>5 DEF RelayFails, Fault, TypeOK
  <2>6. ASSUME NEW p \in Passes, Release(p) PROVE TypeOK'
    <3>1. row' \in [Monitors -> Row]
      BY <2>6, RowUpdates, NoClaimType DEF Release, TypeOK
    <3> QED
      BY <2>3, <2>6, <3>1 DEF Release, TypeOK, bounds
  <2>7. ASSUME NEW p \in Passes, Crash(p) PROVE TypeOK'
    BY <2>3, <2>7 DEF Crash, Fault, TypeOK
  <2>8. ASSUME NEW m \in Monitors, NEW r \in Row, Edit(m, r), owed' \in [Monitors -> Nat] PROVE TypeOK'
    BY <2>8 DEF Edit, TypeOK, passVars
  <2>9. ASSUME NEW m \in Monitors, UserStep(m) PROVE TypeOK'
    <3>0. row[m] \in Row /\ now \in Nat /\ owed \in [Monitors -> Nat]
      BY DEF TypeOK
    <3>1. CASE Pause(m)
      BY <3>0, <3>1, <2>8 DEF Pause, Row
    <3>2. CASE Resume(m)
      BY <3>0, <3>2, <2>8 DEF Resume, Row
    <3>3. CASE SetInterval(m)
      BY <3>0, <3>3, <2>8 DEF SetInterval, Row
    <3>4. CASE Delete(m)
      BY <3>0, <3>4, <2>8 DEF Delete, Row
    <3> QED
      BY <2>9, <3>1, <3>2, <3>3, <3>4 DEF UserStep
  <2>10. ASSUME Tick PROVE TypeOK'
    BY <2>10 DEF Tick, TypeOK, passVars, bounds
  <2>11. CASE UNCHANGED vars
    BY <2>11 DEF vars, passVars, bounds, TypeOK
  <2> QED
    BY <2>1, <2>2, <2>4, <2>5, <2>6, <2>7, <2>9, <2>10, <2>11 DEF Next, PassStep
<1> QED
  BY <1>1, <1>2, PTL DEF Spec

----------------------------------------------------------------------------
(* What the steps do to the variables the invariant speaks of. *)

\* A claim takes only rows that no running pass holds, and leases them.
LEMMA ClaimStep ==
    ASSUME TypeOK, NEW p \in Passes, Claim(p)
    PROVE  \E S \in SUBSET Monitors :
             /\ \A m \in S : Due(m)
             /\ \A m \in Monitors :
                  /\ row'[m].next = row[m].next
                  /\ row'[m].exists = row[m].exists
                  /\ row'[m].active = row[m].active
                  /\ row'[m].lease = IF m \in S THEN now + Lease ELSE row[m].lease
                  /\ claim'[p][m] = IF m \in S THEN ClaimOf(m) ELSE NoClaim
             /\ \A q \in Passes : q # p => claim'[q] = claim[q] /\ pc'[q] = pc[q] /\ at'[q] = at[q]
             /\ pc'[p] = "probing" /\ at'[p] = now
             /\ UNCHANGED <<now, sent, owed>>
<1>1. PICK S \in SUBSET DueSet :
        /\ row' = [m \in Monitors |->
                     IF m \in S THEN [row[m] EXCEPT !.lease = now + Lease] ELSE row[m]]
        /\ claim' = [claim EXCEPT ![p] =
                       [m \in Monitors |-> IF m \in S THEN ClaimOf(m) ELSE NoClaim]]
  BY DEF Claim
<1>2. S \in SUBSET Monitors /\ \A m \in S : Due(m)
  BY DEF DueSet
<1>3. now + Lease \in Nat
  BY SchedulerAssumption DEF TypeOK
<1>4. ASSUME NEW m \in Monitors
      PROVE  /\ row'[m].next = row[m].next
             /\ row'[m].exists = row[m].exists
             /\ row'[m].active = row[m].active
             /\ row'[m].lease = IF m \in S THEN now + Lease ELSE row[m].lease
  <2>1. row[m] \in Row
    BY DEF TypeOK
  <2> QED
    BY <1>1, <1>3, <2>1, RowUpdates, NoClaimType
<1>5. \A m \in Monitors : claim'[p][m] = IF m \in S THEN ClaimOf(m) ELSE NoClaim
  BY <1>1 DEF TypeOK
<1>6. /\ \A q \in Passes : q # p => claim'[q] = claim[q] /\ pc'[q] = pc[q] /\ at'[q] = at[q]
      /\ pc'[p] = "probing" /\ at'[p] = now
      /\ UNCHANGED <<now, sent, owed>>
  BY <1>1 DEF Claim, TypeOK
<1> QED
  BY <1>2, <1>4, <1>5, <1>6

\* A pass that ends holds nothing; the others keep what they hold.
LEMMA PassEndsStep ==
    ASSUME TypeOK, NEW p \in Passes, PassEnds(p)
    PROVE  /\ pc'[p] = "idle" /\ claim'[p] = NoClaims
           /\ \A q \in Passes : q # p => claim'[q] = claim[q] /\ pc'[q] = pc[q] /\ at'[q] = at[q]
BY DEF PassEnds, TypeOK

\* The rows of a pass are completed, all others left alone.
LEMMA RelayStep ==
    ASSUME TypeOK, NEW p \in Passes, Relay(p), NEW m \in Monitors
    PROVE  /\ row'[m] = IF m \in Held(p) THEN Completed(row[m], claim[p][m]) ELSE row[m]
           /\ sent'[m] = IF m \in Held(p) THEN Append(sent[m], claim[p][m].slot) ELSE sent[m]
           /\ owed'[m] = IF m \in Held(p) /\ claim[p][m].slot >= owed[m] THEN 0 ELSE owed[m]
BY DEF Relay

\* A release ends leases and nothing else of a row.
LEMMA ReleaseStep ==
    ASSUME TypeOK, NEW p \in Passes, Release(p), NEW m \in Monitors
    PROVE  /\ row'[m].next = row[m].next
           /\ row'[m].exists = row[m].exists
           /\ row'[m].active = row[m].active
           /\ m \notin Held(p) => row'[m] = row[m]
<1>1. row[m] \in Row
  BY DEF TypeOK
<1>2. row'[m] = IF m \in Held(p) THEN [row[m] EXCEPT !.lease = 0] ELSE row[m]
  BY DEF Release
<1> QED
  BY <1>1, <1>2, RowUpdates, NoClaimType

\* An edit changes one row and no lease; only a resume moves its next run,
\* to an instant after every slot claimed or queued.
LEMMA UserSpan ==
    ASSUME TypeOK, NEW u \in Monitors, UserStep(u)
    PROVE  /\ UNCHANGED <<now, pc, at, claim, sent>>
           /\ \A m \in Monitors :
                /\ row'[m].lease = row[m].lease
                /\ row'[m].exists => row[m].exists
                /\ \/ row'[m].next = row[m].next /\ (owed'[m] = owed[m] \/ owed'[m] = 0)
                   \/ /\ row'[m].next = now /\ owed'[m] = now
                      /\ ~row[m].active /\ row'[m].active
                      /\ \A q \in Passes : claim[q][m].slot < now
                      /\ \A i \in 1 .. Len(sent[m]) : sent[m][i] < now
<1>1. \A m \in Monitors : row[m] \in Row
  BY DEF TypeOK
<1>2. CASE Pause(u)
  BY <1>1, <1>2 DEF Pause, Edit, Row, TypeOK, passVars
<1>3. CASE Resume(u)
  BY <1>1, <1>3 DEF Resume, Edit, Row, TypeOK, passVars
<1>4. CASE SetInterval(u)
  BY <1>1, <1>4 DEF SetInterval, Edit, Row, TypeOK, passVars
<1>5. CASE Delete(u)
  BY <1>1, <1>5 DEF Delete, Edit, Row, TypeOK, passVars
<1> QED
  BY <1>2, <1>3, <1>4, <1>5 DEF UserStep

----------------------------------------------------------------------------
(* A resume is kept, and only a resume rewinds: passes may be slow here.   *)

\* Nothing is held by an idle pass, and every claim's slot is at or after
\* the next run it was made from: preserved by every step.
LEMMA ClaimsStaySane == TypeOK /\ ClaimsAreSane /\ [Next]_vars => ClaimsAreSane'
<1> SUFFICES ASSUME TypeOK, ClaimsAreSane, [Next]_vars PROVE ClaimsAreSane'
  OBVIOUS
<1> USE DEF ClaimsAreSane, Held
<1>1. ASSUME NEW p \in Passes, Claim(p) PROVE ClaimsAreSane'
  <2>1. PICK S \in SUBSET Monitors :
          /\ \A m \in S : Due(m)
          /\ \A m \in Monitors : claim'[p][m] = IF m \in S THEN ClaimOf(m) ELSE NoClaim
          /\ \A q \in Passes : q # p => claim'[q] = claim[q] /\ pc'[q] = pc[q]
          /\ pc'[p] = "probing"
    BY <1>1, ClaimStep
  <2>2. \A m \in Monitors : claim'[p][m].claimed <= claim'[p][m].slot
    BY <2>1, ClaimType DEF NoClaim
  <2> QED
    BY <2>1, <2>2
<1>2. ASSUME NEW p \in Passes, PassEnds(p) PROVE ClaimsAreSane'
  BY <1>2, PassEndsStep DEF NoClaims, NoClaim
<1>3. ASSUME NEW p \in Passes, Probe(p) PROVE ClaimsAreSane'
  BY <1>3 DEF Probe, TypeOK
<1>4. ASSUME NEW p \in Passes, RelayFails(p) PROVE ClaimsAreSane'
  BY <1>4 DEF RelayFails, TypeOK
<1>5. CASE \E m \in Monitors : UserStep(m)
  BY <1>5, UserSpan
<1>6. CASE Tick
  BY <1>6 DEF Tick, passVars
<1>7. CASE UNCHANGED vars
  BY <1>7 DEF vars, passVars
<1> QED
  BY <1>1, <1>2, <1>3, <1>4, <1>5, <1>6, <1>7 DEF Next, PassStep, Relay, Release, Crash

\* next_run_at after a completed claim is not before the row's next run, and
\* is past the claim's slot unless an edit moved it.
LEMMA CompletedNext ==
    ASSUME NEW r \in Row, NEW c \in ClaimRec, c.claimed <= c.slot
    PROVE  /\ Completed(r, c).next >= r.next
           /\ r.next # c.claimed => Completed(r, c).next = r.next
           /\ r.exists /\ r.next = c.claimed => c.slot < Completed(r, c).next
<1>1. r.next \in Nat /\ r.interval \in Nat \ {0} /\ c.slot \in Nat /\ c.claimed \in Nat
  BY SchedulerAssumption DEF Row, ClaimRec
<1>2. Completed(r, c).next = IF r.exists THEN NextRun(r, c) ELSE r.next
  BY RowUpdates, NoClaimType
<1>3. Completed(r, c).next = IF r.exists /\ r.next = c.claimed THEN c.slot + r.interval ELSE r.next
  BY <1>2, Zenon DEF NextRun
<1> QED
  BY <1>1, <1>3

\* A resumed monitor keeps its schedule through every step.
LEMMA ResumeStaysKept == TypeOK /\ ClaimsAreSane /\ ResumeIsKept /\ [Next]_vars => ResumeIsKept'
<1> SUFFICES ASSUME TypeOK, ClaimsAreSane, ResumeIsKept, [Next]_vars PROVE ResumeIsKept'
  OBVIOUS
<1> USE DEF ResumeIsKept
<1>1. ASSUME NEW p \in Passes, Claim(p) PROVE ResumeIsKept'
  <2>1. /\ \A m \in Monitors : row'[m].next = row[m].next
        /\ owed' = owed
    BY <1>1, ClaimStep
  <2> QED
    BY <2>1
<1>2. ASSUME NEW p \in Passes, Relay(p) PROVE ResumeIsKept'
  <2> SUFFICES ASSUME NEW m \in Monitors, owed'[m] # 0 PROVE row'[m].next = owed'[m]
    OBVIOUS
  <2>1. row[m] \in Row /\ claim[p][m] \in ClaimRec /\ owed[m] \in Nat
    BY DEF TypeOK
  <2>2. owed'[m] = owed[m] /\ row[m].next = owed[m]
    BY <1>2, RelayStep
  <2>3. CASE m \notin Held(p)
    BY <1>2, <2>2, <2>3, RelayStep
  <2>4. CASE m \in Held(p)
    <3>1. claim[p][m].claimed <= claim[p][m].slot /\ ~(claim[p][m].slot >= owed[m])
      BY <1>2, <2>4, RelayStep DEF ClaimsAreSane
    <3>2. row[m].next # claim[p][m].claimed
      BY <2>1, <2>2, <3>1 DEF ClaimRec
    <3> QED
      BY <1>2, <2>1, <2>2, <2>4, <3>1, <3>2, RelayStep, CompletedNext
  <2> QED
    BY <2>3, <2>4
<1>3. ASSUME NEW p \in Passes, Release(p) PROVE ResumeIsKept'
  <2>1. owed' = owed
    BY <1>3 DEF Release
  <2> QED
    BY <1>3, <2>1, ReleaseStep
<1>4. ASSUME NEW p \in Passes, Probe(p) \/ RelayFails(p) \/ Crash(p) PROVE ResumeIsKept'
  BY <1>4 DEF Probe, RelayFails, Crash
<1>5. CASE \E m \in Monitors : UserStep(m)
  BY <1>5, UserSpan
<1>6. CASE Tick \/ UNCHANGED vars
  BY <1>6 DEF Tick, vars
<1> QED
  BY <1>1, <1>2, <1>3, <1>4, <1>5, <1>6 DEF Next, PassStep

\* No claims at first.
LEMMA SaneInit == Init => ClaimsAreSane /\ ResumeIsKept
BY DEF Init, ClaimsAreSane, ResumeIsKept, Held, NoClaims, NoClaim

\* Claims are sane and resumes kept in every reachable state.
LEMMA ResumeInvariant == Spec => [](TypeOK /\ ClaimsAreSane /\ ResumeIsKept)
<1>1. ClaimsAreSane /\ ResumeIsKept /\ TypeOK /\ TypeOK' /\ [Next]_vars
        => ClaimsAreSane' /\ ResumeIsKept'
  BY ClaimsStaySane, ResumeStaysKept
<1> QED
  BY <1>1, SaneInit, SchedulerTypeOK, PTL DEF Spec

\* A pass that claimed a monitor before it was paused and resumed cannot,
\* by completing late, skip the check the resume asked for.
THEOREM ResumeKept == Spec => []ResumeIsKept
BY ResumeInvariant, PTL

\* However late a pass completes, next_run_at never moves back except when a
\* user resumes the monitor.
THEOREM NextRunNeverRewinds == Spec => OnlyResumeRewinds
<1> DEFINE Forward == \A m \in Monitors : row'[m].next < row[m].next => ~row[m].active /\ row'[m].active
<1>1. TypeOK /\ ClaimsAreSane /\ [Next]_vars => [Forward]_vars
  <2> SUFFICES ASSUME TypeOK, ClaimsAreSane, Next PROVE Forward
    OBVIOUS
  <2> SUFFICES ASSUME NEW m \in Monitors, row'[m].next < row[m].next
               PROVE  ~row[m].active /\ row'[m].active
    OBVIOUS
  <2>0. row[m] \in Row /\ row[m].next \in Nat
    BY DEF TypeOK, Row
  <2>1. ASSUME NEW p \in Passes, Claim(p) PROVE FALSE
    <3>1. row'[m].next = row[m].next
      BY <2>1, ClaimStep
    <3> QED
      BY <2>0, <3>1
  <2>2. ASSUME NEW p \in Passes, Relay(p) PROVE FALSE
    <3>1. claim[p][m] \in ClaimRec /\ claim[p][m].claimed <= claim[p][m].slot
      BY DEF TypeOK, ClaimsAreSane
    <3>2. Completed(row[m], claim[p][m]).next >= row[m].next /\ Completed(row[m], claim[p][m]).next \in Nat
      BY <2>0, <3>1, CompletedNext, RowUpdates DEF Row
    <3> QED
      BY <2>0, <2>2, <3>2, RelayStep
  <2>3. ASSUME NEW p \in Passes, Release(p) PROVE FALSE
    BY <2>0, <2>3, ReleaseStep
  <2>4. ASSUME NEW p \in Passes, Probe(p) \/ RelayFails(p) \/ Crash(p) PROVE FALSE
    BY <2>0, <2>4 DEF Probe, RelayFails, Crash
  <2>5. CASE \E u \in Monitors : UserStep(u)
    BY <2>0, <2>5, UserSpan
  <2>6. CASE Tick
    BY <2>0, <2>6 DEF Tick
  <2> QED
    BY <2>1, <2>2, <2>3, <2>4, <2>5, <2>6 DEF Next, PassStep
<1>2. Spec => [](TypeOK /\ ClaimsAreSane)
  BY ResumeInvariant, PTL
<1> QED
  BY <1>1, <1>2, PTL DEF Spec, OnlyResumeRewinds

----------------------------------------------------------------------------
(* No double dispatch, as long as no pass outlives its lease.              *)

Exclusive == LeaseIsHeld /\ NoDoubleDispatch

\* Why a claim cannot take what a running pass holds: that row's lease has
\* not lapsed.
LEMMA DueIsFree ==
    ASSUME TypeOK, ClaimsAreSane, LeaseIsHeld, ~overrun,
           NEW m \in Monitors, Due(m), NEW q \in Passes
    PROVE  m \notin Held(q)
<1> SUFFICES ASSUME m \in Held(q) PROVE FALSE
  OBVIOUS
<1>1. pc[q] # "idle"
  BY DEF ClaimsAreSane
<1>2. now < at[q] + Lease /\ row[m].lease = at[q] + Lease
  BY <1>1 DEF LeaseIsHeld
<1> QED
  BY <1>2, SchedulerAssumption DEF Due, TypeOK, Row

\* An overrun lease is remembered.
LEMMA OverrunStays ==
    TypeOK /\ [Next]_vars /\ overrun => overrun'
  BY DEF Next, PassStep, UserStep, Claim, Probe, Relay, RelayFails, Release, Crash, Fault,
         Pause, Resume, SetInterval, Delete, Edit, Tick, bounds, vars, TypeOK

\* While no pass outlives its lease, every step keeps passes exclusive.
LEMMA StaysExclusive ==
    ~overrun /\ ~overrun' /\ TypeOK /\ ClaimsAreSane /\ Exclusive /\ [Next]_vars => Exclusive'
<1> SUFFICES ASSUME ~overrun, ~overrun', TypeOK, ClaimsAreSane, Exclusive, [Next]_vars
             PROVE  Exclusive'
  OBVIOUS
<1> USE DEF Exclusive, LeaseIsHeld, NoDoubleDispatch
<1>1. ASSUME NEW p \in Passes, Claim(p) PROVE Exclusive'
  <2>1. PICK S \in SUBSET Monitors :
          /\ \A m \in S : Due(m)
          /\ \A m \in Monitors :
               /\ row'[m].lease = IF m \in S THEN now + Lease ELSE row[m].lease
               /\ claim'[p][m] = IF m \in S THEN ClaimOf(m) ELSE NoClaim
          /\ \A q \in Passes : q # p => claim'[q] = claim[q] /\ pc'[q] = pc[q] /\ at'[q] = at[q]
          /\ pc'[p] = "probing" /\ at'[p] = now
          /\ now' = now
    BY <1>1, ClaimStep
  <2>2. \A q \in Passes : S \cap Held(q) = {}
    BY <2>1, DueIsFree
  <2>3. Held(p)' \subseteq S /\ \A q \in Passes : q # p => Held(q)' = Held(q)
    BY <2>1 DEF Held, NoClaim
  <2>4. now \in Nat /\ now < now + Lease
    BY SchedulerAssumption DEF TypeOK
  <2>5. LeaseIsHeld'
    <3> SUFFICES ASSUME NEW q \in Passes, pc'[q] # "idle"
                 PROVE  now' < at'[q] + Lease /\ \A m \in Held(q)' : row'[m].lease = at'[q] + Lease
      OBVIOUS
    <3>1. CASE q = p
      BY <2>1, <2>3, <2>4, <3>1
    <3>2. CASE q # p
      BY <2>1, <2>2, <2>3, <3>2 DEF Held
    <3> QED
      BY <3>1, <3>2
  <2>6. NoDoubleDispatch'
    BY <2>2, <2>3
  <2> QED
    BY <2>5, <2>6
<1>2. ASSUME NEW p \in Passes, PassEnds(p), now' = now,
             \A m \in Monitors : m \notin Held(p) => row'[m] = row[m]
      PROVE  Exclusive'
  <2>1. Held(p)' = {} /\ pc'[p] = "idle"
    BY <1>2, PassEndsStep DEF Held, NoClaims, NoClaim
  <2>2. \A q \in Passes : q # p => Held(q)' = Held(q) /\ pc'[q] = pc[q] /\ at'[q] = at[q]
    BY <1>2, PassEndsStep DEF Held
  <2>3. \A q \in Passes : q # p => \A m \in Held(q) : row'[m] = row[m]
    BY <1>2 DEF Held
  <2> QED
    BY <1>2, <2>1, <2>2, <2>3
<1>3. ASSUME NEW p \in Passes, Relay(p) PROVE Exclusive'
  <2>1. \A m \in Monitors : m \notin Held(p) => row'[m] = row[m]
    BY <1>3, RelayStep
  <2>2. PassEnds(p) /\ now' = now
    BY <1>3 DEF Relay
  <2> QED
    BY <1>2, <2>1, <2>2
<1>4. ASSUME NEW p \in Passes, Release(p) PROVE Exclusive'
  BY <1>2, <1>4, ReleaseStep DEF Release
<1>5. ASSUME NEW p \in Passes, Crash(p) PROVE Exclusive'
  BY <1>2, <1>5 DEF Crash
<1>6. ASSUME NEW p \in Passes, Probe(p) \/ RelayFails(p) PROVE Exclusive'
  <2>1. UNCHANGED <<now, row, at, claim>> /\ \A q \in Passes : pc'[q] # "idle" => pc[q] # "idle"
    BY <1>6 DEF Probe, RelayFails, TypeOK
  <2> QED
    BY <2>1 DEF Held
<1>7. CASE \E u \in Monitors : UserStep(u)
  <2>1. UNCHANGED <<now, pc, at, claim>> /\ \A m \in Monitors : row'[m].lease = row[m].lease
    BY <1>7, UserSpan
  <2> QED
    BY <2>1 DEF Held
<1>8. CASE Tick
  <2>1. /\ UNCHANGED <<row, pc, at, claim>>
        /\ \A p \in Passes : pc[p] # "idle" => ~(now' >= at[p] + Lease)
    BY <1>8 DEF Tick, passVars
  <2>2. now' \in Nat /\ \A p \in Passes : at[p] \in Nat
    BY <1>8 DEF Tick, TypeOK
  <2>3. \A p \in Passes : pc[p] # "idle" => now' < at[p] + Lease
    BY <2>1, <2>2, SchedulerAssumption
  <2> QED
    BY <2>1, <2>3 DEF Held
<1>9. CASE UNCHANGED vars
  BY <1>9 DEF vars, passVars, Held
<1> QED
  BY <1>1, <1>3, <1>4, <1>5, <1>6, <1>7, <1>8, <1>9 DEF Next, PassStep

\* No pass at first.
LEMMA ExclusiveInit == Init => Exclusive
BY DEF Init, Exclusive, LeaseIsHeld, NoDoubleDispatch, Held, NoClaims, NoClaim

\* While no pass outlives its lease, passes are exclusive in every reachable
\* state.
LEMMA ExclusiveInvariant == Spec => [](TypeOK /\ ClaimsAreSane /\ Exclusive)
<1>1. ClaimsAreSane /\ TypeOK /\ Exclusive /\ [Next]_vars => Exclusive'
  BY StaysExclusive, OverrunStays DEF Exclusive, LeaseIsHeld, NoDoubleDispatch
<1> QED
  BY <1>1, ExclusiveInit, ResumeInvariant, PTL DEF Spec

\* Passes that end within their lease never hold one monitor twice, for any
\* number of passes, crashes, releases and edits.
THEOREM NoMonitorTwice == Spec => []NoDoubleDispatch
BY ExclusiveInvariant, PTL DEF Exclusive

----------------------------------------------------------------------------
(* The queue of each monitor only moves forward.                           *)

Ordered == QueueIsBehind /\ SlotsAdvance

\* While no pass outlives its lease, every step keeps slots in order.
LEMMA StaysOrdered ==
    /\ ~overrun /\ TypeOK /\ TypeOK'
    /\ ClaimsAreSane /\ Exclusive /\ Ordered /\ [Next]_vars
    => Ordered'
<1> SUFFICES ASSUME ~overrun, TypeOK, TypeOK', ClaimsAreSane, Exclusive, Ordered, [Next]_vars
             PROVE  Ordered'
  OBVIOUS
<1> USE DEF Ordered, QueueIsBehind, SlotsAdvance
<1> DEFINE Behind(m) ==
             /\ row[m].exists => \A i \in 1 .. Len(sent[m]) : sent[m][i] < row[m].next
             /\ \A p \in Passes : m \in Held(p) =>
                 /\ \A i \in 1 .. Len(sent[m]) : sent[m][i] < claim[p][m].slot
                 /\ \/ claim[p][m].claimed = row[m].next
                    \/ claim[p][m].slot < row[m].next
           Sorted(m) == \A i \in 1 .. Len(sent[m]) - 1 : sent[m][i] < sent[m][i + 1]
<1>0. \A m \in Monitors : /\ row[m] \in Row /\ row[m].next \in Nat
                          /\ sent[m] \in Seq(Nat) /\ Len(sent[m]) \in Nat
                          /\ \A i \in 1 .. Len(sent[m]) : sent[m][i] \in Nat
                          /\ \A p \in Passes : claim[p][m] \in ClaimRec
  BY SMTT(40) DEF TypeOK, Row
<1>1. SUFFICES ASSUME NEW m \in Monitors PROVE Behind(m)' /\ Sorted(m)'
  OBVIOUS
<1>2. Behind(m) /\ Sorted(m)
  OBVIOUS
<1> HIDE DEF Ordered, QueueIsBehind, SlotsAdvance
<1>3. ASSUME sent'[m] = sent[m], row'[m].exists => row[m].exists, row'[m].next = row[m].next,
             \A p \in Passes : m \in Held(p)' => m \in Held(p) /\ claim'[p][m] = claim[p][m]
      PROVE  Behind(m)' /\ Sorted(m)'
  BY <1>2, <1>3
<1>4. ASSUME NEW p \in Passes, Claim(p) PROVE Behind(m)' /\ Sorted(m)'
  <2>1. PICK S \in SUBSET Monitors :
          /\ \A n \in S : Due(n)
          /\ row'[m].next = row[m].next /\ row'[m].exists = row[m].exists
          /\ claim'[p][m] = IF m \in S THEN ClaimOf(m) ELSE NoClaim
          /\ \A q \in Passes : q # p => claim'[q] = claim[q]
          /\ sent' = sent
    BY <1>4, ClaimStep
  <2>2. CASE m \notin S
    <3>1. \A q \in Passes : m \in Held(q)' => q # p
      BY <2>1, <2>2 DEF Held, NoClaim
    <3>2. \A q \in Passes : m \in Held(q)' => m \in Held(q) /\ claim'[q][m] = claim[q][m]
      BY <2>1, <3>1 DEF Held
    <3>3. sent'[m] = sent[m] /\ row'[m].exists = row[m].exists /\ row'[m].next = row[m].next
      BY <2>1
    <3> QED
      BY <1>3, <3>2, <3>3
  <2>3. CASE m \in S
    <3>1. Due(m) /\ row[m].exists
      BY <2>1, <2>3 DEF Due
    <3>2. \A q \in Passes : m \in Held(q)' => q = p
      <4>1. \A q \in Passes : m \notin Held(q)
        BY <3>1, DueIsFree DEF Exclusive
      <4> QED
        BY <2>1, <4>1 DEF Held
    <3>3. claim'[p][m].claimed = row[m].next /\ row[m].next <= claim'[p][m].slot /\ claim'[p][m].slot \in Nat
      BY <2>1, <2>3, <3>1, ClaimType DEF ClaimRec
    <3>4. \A i \in 1 .. Len(sent[m]) : sent[m][i] < claim'[p][m].slot
      BY <1>0, <1>2, <3>1, <3>3
    <3> QED
      BY <1>2, <2>1, <3>2, <3>3, <3>4
  <2> QED
    BY <2>2, <2>3
<1>5. ASSUME NEW p \in Passes, PassEnds(p)
      PROVE  /\ m \notin Held(p)'
             /\ \A q \in Passes : q # p => (m \in Held(q)' <=> m \in Held(q)) /\ claim'[q][m] = claim[q][m]
  BY <1>5, PassEndsStep DEF Held, NoClaims, NoClaim
<1>6. ASSUME NEW p \in Passes, Relay(p) PROVE Behind(m)' /\ Sorted(m)'
  <2>0. PassEnds(p)
    BY <1>6 DEF Relay
  <2>1. CASE m \notin Held(p)
    BY <1>3, <1>5, <1>6, <2>0, <2>1, RelayStep
  <2>2. CASE m \in Held(p)
    <3> DEFINE s == claim[p][m].slot
    <3>1. s \in Nat /\ claim[p][m].claimed \in Nat /\ claim[p][m].claimed <= s
      BY <1>0 DEF ClaimRec, ClaimsAreSane
    <3>2. sent'[m] = Append(sent[m], s) /\ row'[m] = Completed(row[m], claim[p][m])
      BY <1>6, <2>2, RelayStep
    <3>3. /\ Len(sent'[m]) = Len(sent[m]) + 1
          /\ \A i \in 1 .. Len(sent[m]) : sent'[m][i] = sent[m][i]
          /\ sent'[m][Len(sent[m]) + 1] = s
      BY <1>0, <3>1, <3>2
    <3>4. \A q \in Passes : m \notin Held(q)'
      BY <1>5, <2>0, <2>2 DEF Exclusive, NoDoubleDispatch
    <3>5. \A i \in 1 .. Len(sent[m]) : sent[m][i] < s
      BY <1>2, <2>2
    <3>6. Sorted(m)'
      <4> SUFFICES ASSUME NEW i \in 1 .. Len(sent'[m]) - 1
                   PROVE  sent'[m][i] < sent'[m][i + 1]
        OBVIOUS
      <4>1. Len(sent[m]) \in Nat /\ i \in 1 .. Len(sent[m])
        BY <1>0, <3>3
      <4>2. CASE i = Len(sent[m])
        BY <3>3, <3>5, <4>1, <4>2
      <4>3. CASE i # Len(sent[m])
        <5>1. i \in 1 .. Len(sent[m]) - 1 /\ i + 1 \in 1 .. Len(sent[m])
          BY <4>1, <4>3
        <5>2. sent[m][i] < sent[m][i + 1]
          BY <1>2, <5>1
        <5> QED
          BY <3>3, <5>1, <5>2
      <4> QED
        BY <4>2, <4>3
    <3>7. row'[m].exists => s < row'[m].next
      <4>1. row'[m].exists => row[m].exists
        <5>1. Completed(row[m], claim[p][m]).exists = row[m].exists
          BY <1>0, RowUpdates, NoClaimType
        <5> QED
          BY <3>2, <5>1
      <4>2. claim[p][m].claimed = row[m].next \/ s < row[m].next
        BY <1>2, <2>2
      <4>3. Completed(row[m], claim[p][m]).next \in Nat
        BY <1>0, RowUpdates, NoClaimType DEF Row
      <4> QED
        BY <1>0, <3>1, <3>2, <4>1, <4>2, <4>3, CompletedNext
    <3>8. row'[m].exists => \A i \in 1 .. Len(sent'[m]) : sent'[m][i] < row'[m].next
      <4>1. row'[m].next \in Nat
        BY DEF TypeOK, Row
      <4> SUFFICES ASSUME row'[m].exists, NEW i \in 1 .. Len(sent'[m])
                   PROVE  sent'[m][i] < row'[m].next
        OBVIOUS
      <4>2. s < row'[m].next
        BY <3>7
      <4>3. i \in 1 .. Len(sent[m]) \/ i = Len(sent[m]) + 1
        BY <1>0, <3>3
      <4>4. CASE i \in 1 .. Len(sent[m])
        <5>1. sent'[m][i] = sent[m][i] /\ sent[m][i] < s /\ sent[m][i] \in Nat
          BY <1>0, <3>3, <3>5, <4>4
        <5> QED
          BY <3>1, <4>1, <4>2, <5>1
      <4>5. CASE i = Len(sent[m]) + 1
        BY <3>3, <4>2, <4>5
      <4> QED
        BY <4>3, <4>4, <4>5
    <3> QED
      BY <3>4, <3>6, <3>8
  <2> QED
    BY <2>1, <2>2
<1>7. ASSUME NEW p \in Passes, Release(p) PROVE Behind(m)' /\ Sorted(m)'
  <2>1. PassEnds(p) /\ sent' = sent
    BY <1>7 DEF Release
  <2> QED
    BY <1>3, <1>5, <1>7, <2>1, ReleaseStep
<1>8. ASSUME NEW p \in Passes, Crash(p) PROVE Behind(m)' /\ Sorted(m)'
  BY <1>3, <1>5, <1>8 DEF Crash
<1>9. ASSUME NEW p \in Passes, Probe(p) \/ RelayFails(p) PROVE Behind(m)' /\ Sorted(m)'
  BY <1>3, <1>9 DEF Probe, RelayFails, Held
<1>10. ASSUME NEW u \in Monitors, UserStep(u) PROVE Behind(m)' /\ Sorted(m)'
  <2>1. /\ claim' = claim /\ sent' = sent /\ (row'[m].exists => row[m].exists)
        /\ \A q \in Passes : Held(q)' = Held(q)
    BY <1>10, UserSpan DEF Held
  <2>2. CASE row'[m].next = row[m].next
    <3>1. \A q \in Passes : m \in Held(q)' => m \in Held(q) /\ claim'[q][m] = claim[q][m]
      BY <2>1
    <3>2. sent'[m] = sent[m] /\ (row'[m].exists => row[m].exists)
      BY <2>1
    <3> QED
      BY <1>3, <2>2, <3>1, <3>2
  <2>3. CASE row'[m].next # row[m].next
    <3>1. /\ row'[m].next = now
          /\ \A q \in Passes : claim[q][m].slot < now
          /\ \A i \in 1 .. Len(sent[m]) : sent[m][i] < now
      BY <1>10, <2>3, UserSpan
    <3>2. \A i \in 1 .. Len(sent'[m]) : sent'[m][i] < row'[m].next
      BY <2>1, <3>1
    <3>3. ASSUME NEW q \in Passes, m \in Held(q)'
          PROVE  /\ \A i \in 1 .. Len(sent'[m]) : sent'[m][i] < claim'[q][m].slot
                 /\ claim'[q][m].slot < row'[m].next
      <4>1. m \in Held(q) /\ claim'[q][m] = claim[q][m] /\ sent'[m] = sent[m]
        BY <2>1, <3>3
      <4> QED
        BY <1>2, <3>1, <4>1
    <3>4. Sorted(m)'
      BY <1>2, <2>1
    <3> QED
      BY <3>2, <3>3, <3>4
  <2> QED
    BY <2>2, <2>3
<1>11. CASE Tick \/ UNCHANGED vars
  BY <1>3, <1>11 DEF Tick, vars, passVars, Held
<1> QED
  BY <1>4, <1>6, <1>7, <1>8, <1>9, <1>10, <1>11 DEF Next, PassStep

\* No slots dispatched at first.
LEMMA OrderedInit == Init => Ordered
BY DEF Init, Ordered, QueueIsBehind, SlotsAdvance, Held, NoClaims, NoClaim

\* While passes end within their lease, the slots queued for a monitor are
\* strictly increasing: no slot is queued twice, none after a newer one.
THEOREM SlotsOnlyAdvance == Spec => []SlotsAdvance
<1>1. TypeOK /\ TypeOK' /\ ClaimsAreSane /\ Exclusive /\ Ordered /\ [Next]_vars => Ordered'
  BY StaysOrdered, OverrunStays DEF Ordered, QueueIsBehind, SlotsAdvance
<1>2. Spec => []Ordered
  BY <1>1, OrderedInit, ExclusiveInvariant, PTL DEF Spec
<1> QED
  BY <1>2, PTL DEF Ordered

=============================================================================
