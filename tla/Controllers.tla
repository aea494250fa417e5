---------------------------- MODULE Controllers ----------------------------
(***************************************************************************)
(* The controllers of the web console (src/web/src/controllers): the       *)
(* requests each keeps loaded (one useRequest hook each) and the           *)
(* operations it offers.  An operation makes its calls in order, stops at  *)
(* the first that fails, and then reloads some of the controller's hooks.  *)
(*                                                                         *)
(* A hook is known by a name of its own across the console.  A keyed hook  *)
(* loads again whenever what is selected changes: the id in the path, the  *)
(* query, the time range (the deps of useRequest).                         *)
(*                                                                         *)
(* Left out: the operations no screen offers (removing a monitor, a        *)
(* dashboard, an SLO or a rule, adding a channel, renaming a dashboard,    *)
(* editing the catalog), and the replays of a rule, which change nothing.  *)
(***************************************************************************)
EXTENDS Api, Sequences, TLC

AllReads(calls) == UNION {c.reads : c \in calls}

Hook(calls) == [reads |-> AllReads(calls), keyed |-> FALSE]
Keyed(calls) == [reads |-> AllReads(calls), keyed |-> TRUE]

\* undo: the calls an operation makes when a call after its first fails.
Op(calls, reloads) == [calls |-> calls, reloads |-> reloads, undo |-> FALSE]
OpWithUndo(calls, reloads) == [Op(calls, reloads) EXCEPT !.undo = TRUE]
None == <<>>

\* The bar at the top of every dashboard page.
Shell ==
    [hooks |-> [shellOrg |-> Hook({OrgsRepo.current}),
                shellOrgs |-> Hook({OrgsRepo.list}),
                shellFeed |-> Hook({AlertsRepo.feed}),
                shellIncidents |-> Hook({IncidentsRepo.list})],
     ops |-> [switchOrg |-> Op(<<OrgsRepo.activate>>, {})]]

OrgHome ==
    [hooks |-> [homeOnboarding |-> Hook({OrgsRepo.onboarding}),
                tiles |-> Keyed({TelemetryRepos.query, SlosRepo.list}),
                homeDashboards |-> Hook({DashboardsRepo.list}),
                homeFeed |-> Hook({AlertsRepo.feed}),
                homeSlos |-> Hook({SlosRepo.list})],
     ops |-> None]

Onboarding ==
    [hooks |-> [onboarding |-> Hook({OrgsRepo.onboarding})],
     ops |-> [createOrg |-> Op(<<OrgsRepo.create>>, {"onboarding"})]]

OrgProfile ==
    [hooks |-> [org |-> Hook({OrgsRepo.current})],
     ops |-> [updateOrg |-> Op(<<OrgsRepo.update>>, {"org"})]]

Alerts ==
    [hooks |-> [channels |-> Hook({AlertsRepo.channels}),
                rules |-> Hook({AlertsRepo.rules}),
                feed |-> Hook({AlertsRepo.feed})],
     ops |-> [verifyChannel |-> Op(<<AlertsRepo.verifyChannel>>, {"channels"}),
              removeChannel |-> Op(<<AlertsRepo.removeChannel>>, {"channels"}),
              createRule |-> Op(<<AlertsRepo.createRule>>, {"rules"}),
              updateRule |-> Op(<<AlertsRepo.updateRule>>, {"rules"})]]

Rule == [hooks |-> [ruleRules |-> Hook({AlertsRepo.rules})], ops |-> None]

Incidents ==
    [hooks |-> [incidents |-> Hook({IncidentsRepo.list})],
     ops |-> [declare |-> Op(<<IncidentsRepo.declare>>, {"incidents"})]]

\* A composer line with /sev patches the incident before it posts.
OneIncident ==
    [hooks |-> [incident |-> Keyed({IncidentsRepo.get}),
                timeline |-> Keyed({IncidentsRepo.timeline}),
                postmortem |-> Keyed({IncidentsRepo.postmortem})],
     ops |-> [postUpdate |-> Op(<<IncidentsRepo.postUpdate>>,
                                {"incident", "timeline"}),
              postWithSev |-> Op(<<IncidentsRepo.update, IncidentsRepo.postUpdate>>,
                                 {"incident", "timeline"}),
              savePostmortem |-> Op(<<IncidentsRepo.savePostmortem>>,
                                    {"postmortem", "incident"})]]

Settings ==
    [hooks |-> [keys |-> Hook({KeysRepo.list}),
                members |-> Hook({MembersRepo.list})],
     ops |-> [createKey |-> Op(<<KeysRepo.create>>, {"keys"}),
              rotateKey |-> Op(<<KeysRepo.rotate>>, {"keys"}),
              revokeKey |-> Op(<<KeysRepo.revoke>>, {"keys"}),
              inviteMember |-> Op(<<MembersRepo.invite>>, {"members"}),
              setMemberRole |-> Op(<<MembersRepo.setRole>>, {"members"})]]

Usage == [hooks |-> [usage |-> Hook({UsageRepo.report})], ops |-> None]

Monitors ==
    [hooks |-> [monitors |-> Hook({MonitorsRepo.list})],
     ops |-> [createMonitor |-> Op(<<MonitorsRepo.create>>, {"monitors"}),
              setMuted |-> Op(<<MonitorsRepo.update>>, {"monitors"})]]

\* Keyed by the ids of the first three monitors that have been probed.
UptimeCards ==
    [hooks |-> [cards |-> Keyed({MonitorsRepo.history})], ops |-> None]

OneMonitor ==
    [hooks |-> [monitor |-> Keyed({MonitorsRepo.get}),
                history |-> Keyed({MonitorsRepo.history})],
     ops |-> None]

\* The builder saves and runs in one press.
Synthetics ==
    [hooks |-> [synthetics |-> Hook({SyntheticsRepo.list})],
     ops |-> [createCheck |-> Op(<<SyntheticsRepo.create>>, {"synthetics"}),
              updateCheck |-> Op(<<SyntheticsRepo.update>>, {"synthetics"}),
              removeCheck |-> Op(<<SyntheticsRepo.remove>>, {"synthetics"}),
              runOnce |-> Op(<<SyntheticsRepo.runOnce>>, {"synthetics"})]]

OneCheck == [hooks |-> [builtCheck |-> Keyed({SyntheticsRepo.get})], ops |-> None]

SyntheticRun ==
    [hooks |-> [check |-> Keyed({SyntheticsRepo.get}),
                runs |-> Keyed({SyntheticsRepo.runs})],
     ops |-> None]

SyntheticContext ==
    [hooks |-> [contextMonitors |-> Hook({MonitorsRepo.list}),
                contextHistory |-> Keyed({MonitorsRepo.history})],
     ops |-> None]

\* create places the first widget; importJson sets the template variables,
\* places every widget, and removes the dashboard when one of them fails.
Dashboards ==
    [hooks |-> [dashboards |-> Hook({DashboardsRepo.list})],
     ops |-> [createDashboard |-> Op(<<DashboardsRepo.create, DashboardsRepo.addWidget>>,
                                     {"dashboards"}),
              toggleFavorite |-> Op(<<DashboardsRepo.update>>, {"dashboards"}),
              importJson |-> OpWithUndo(<<DashboardsRepo.create, DashboardsRepo.update,
                                          DashboardsRepo.addWidget>>,
                                        {"dashboards"})]]

OneDashboard ==
    [hooks |-> [dashboard |-> Keyed({DashboardsRepo.get})],
     ops |-> [addWidget |-> Op(<<DashboardsRepo.addWidget>>, {"dashboard"}),
              updateWidget |-> Op(<<DashboardsRepo.updateWidget>>, {"dashboard"}),
              removeWidget |-> Op(<<DashboardsRepo.removeWidget>>, {"dashboard"}),
              moveWidget |-> Op(<<DashboardsRepo.updateWidget>>, {"dashboard"}),
              duplicateWidget |-> Op(<<DashboardsRepo.addWidget>>, {"dashboard"})]]

\* Each hook also re-runs when the type of the widget it serves changes.
WidgetData ==
    [hooks |-> [widgetQuery |-> Keyed({TelemetryRepos.query}),
                widgetLogs |-> Keyed({TelemetryRepos.logs}),
                widgetSlos |-> Keyed({SlosRepo.list}),
                widgetMonitors |-> Keyed({MonitorsRepo.list}),
                widgetServices |-> Keyed({TelemetryRepos.services})],
     ops |-> None]

SavedViews ==
    [hooks |-> [views |-> Keyed({ViewsRepo.list})],
     ops |-> [saveView |-> Op(<<ViewsRepo.create>>, {"views"}),
              removeView |-> Op(<<ViewsRepo.remove>>, {"views"})]]

LogsExplorer ==
    [hooks |-> [logs |-> Keyed({TelemetryRepos.logs})], ops |-> None]
LogPatterns ==
    [hooks |-> [patterns |-> Keyed({TelemetryRepos.patterns})], ops |-> None]

\* The explorer's query runs again whenever the submitted query or the
\* range changes, and only the latest answer counts, as in useRequest.
MetricsExplorer ==
    [hooks |-> [metric |-> Keyed({TelemetryRepos.query})],
     ops |-> [saveToDashboard |-> Op(<<DashboardsRepo.addWidget>>, {})]]

Metrics == [hooks |-> [summary |-> Hook({TelemetryRepos.summary})], ops |-> None]
Query == [hooks |-> [latency |-> Keyed({TelemetryRepos.query})], ops |-> None]
Traces == [hooks |-> [traces |-> Keyed({TelemetryRepos.traces})], ops |-> None]
OneTrace == [hooks |-> [trace |-> Keyed({TelemetryRepos.trace})], ops |-> None]
TraceLogs == [hooks |-> [traceLogs |-> Keyed({TelemetryRepos.logs})], ops |-> None]
Services == [hooks |-> [services |-> Hook({TelemetryRepos.services})], ops |-> None]

Rum ==
    [hooks |-> [rumSummary |-> Keyed({RumRepo.summary}),
                vitals |-> Keyed({RumRepo.vitals}),
                rumErrors |-> Hook({RumRepo.errors}),
                properties |-> Hook({KeysRepo.list})],
     ops |-> None]

RumDrilldown ==
    [hooks |-> [sessions |-> Keyed({RumRepo.summary}),
                drilldown |-> Keyed({RumRepo.drilldown}),
                drilldownProperties |-> Hook({KeysRepo.list})],
     ops |-> None]

\* Reloads nothing: the new key is shown from the answer.
RumProperty ==
    [hooks |-> None,
     ops |-> [createProperty |-> Op(<<KeysRepo.create>>, {})]]

Catalog == [hooks |-> [catalog |-> Hook({CatalogRepo.list})], ops |-> None]

CatalogPage ==
    [hooks |-> [catalogServices |-> Hook({TelemetryRepos.services}),
                detail |-> Keyed({TelemetryRepos.query})],
     ops |-> None]

Slos ==
    [hooks |-> [slos |-> Hook({SlosRepo.list})],
     ops |-> [createSlo |-> Op(<<SlosRepo.create>>, {"slos"})]]

StatusPage == [hooks |-> [status |-> Keyed({StatusRepo.bySlug})], ops |-> None]

StatusPageBuilder ==
    [hooks |-> [config |-> Hook({StatusRepo.config})],
     ops |-> [saveConfig |-> Op(<<StatusRepo.updateConfig>>, {"config"})]]

\* Every hook of the console, by name.
AllHooks ==
    Shell.hooks @@ OrgHome.hooks @@ Onboarding.hooks @@ OrgProfile.hooks @@
    Alerts.hooks @@ Rule.hooks @@ Incidents.hooks @@ OneIncident.hooks @@
    Settings.hooks @@ Usage.hooks @@ Monitors.hooks @@ UptimeCards.hooks @@
    OneMonitor.hooks @@ Synthetics.hooks @@ OneCheck.hooks @@ SyntheticRun.hooks @@
    SyntheticContext.hooks @@ Dashboards.hooks @@ OneDashboard.hooks @@
    WidgetData.hooks @@ SavedViews.hooks @@ LogsExplorer.hooks @@ LogPatterns.hooks @@
    MetricsExplorer.hooks @@ Metrics.hooks @@ Query.hooks @@ Traces.hooks @@
    OneTrace.hooks @@ TraceLogs.hooks @@ Services.hooks @@ Rum.hooks @@
    RumDrilldown.hooks @@ Catalog.hooks @@ CatalogPage.hooks @@ Slos.hooks @@
    StatusPage.hooks @@ StatusPageBuilder.hooks
=============================================================================
