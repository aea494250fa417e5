-------------------------------- MODULE Api --------------------------------
(***************************************************************************)
(* The REST surface behind the web console's screens, reduced to what a    *)
(* screen can depend on: which tables of the active org each call reads,   *)
(* and which it changes.                                                   *)
(*                                                                         *)
(* The calls are the services of api/common (src/api/common/internal/      *)
(* service) and, for telemetry, of api/query (src/api/query/internal/      *)
(* telemetry); the repositories that name them for the console are those   *)
(* of src/web/src/models/repositories/index.ts.  A call that is refused    *)
(* changes nothing (its transaction is rolled back), so that a refusal is  *)
(* left to Console, where any call may fail.  Checks of roles and shapes,  *)
(* and the events a write puts in the outbox, are left out.                *)
(***************************************************************************)

\* The tables, and what the telemetry plane stores.  A dashboard's widgets
\* are part of its document.
Stores == {"orgs", "members", "keys", "monitors", "incidents", "timelines",
           "postmortems", "synthetics", "runs", "channels", "rules", "alertFeed",
           "slos", "dashboards", "views", "catalog", "statusPage", "telemetry"}

Reads(tables) == [reads |-> tables, writes |-> {}]
Writes(tables) == [reads |-> {}, writes |-> tables]

\* Orgs.  Every read is of the caller's active org; creating an org makes it
\* the active one, so that both these writes change what any read finds.
CurrentOrg == Reads({"orgs"})
ListOrgs == Reads({"orgs"})
CreateOrg == Writes(Stores)
UpdateOrg == Writes({"orgs"})
ActivateOrg == Writes(Stores)
FirstRun == Reads({"keys", "telemetry"})
OrgsRepo == [current |-> CurrentOrg, list |-> ListOrgs, create |-> CreateOrg,
             update |-> UpdateOrg, activate |-> ActivateOrg, onboarding |-> FirstRun]

ListMembers == Reads({"members"})
InviteMember == Writes({"members"})
UpdateMember == Writes({"members"})
MembersRepo == [list |-> ListMembers, invite |-> InviteMember,
                setRole |-> UpdateMember]

ListKeys == Reads({"keys"})
CreateKey == Writes({"keys"})
RotateKey == Writes({"keys"})
RevokeKey == Writes({"keys"})
KeysRepo == [list |-> ListKeys, create |-> CreateKey, rotate |-> RotateKey,
             revoke |-> RevokeKey]

\* Monitors.  Pausing one resolves its open incident.
ListMonitors == Reads({"monitors"})
GetMonitor == Reads({"monitors"})
CreateMonitor == Writes({"monitors"})
UpdateMonitor == Writes({"monitors", "incidents", "timelines"})
DeleteMonitor == Writes({"monitors"})
MonitorHistory == Reads({"telemetry"})
TestMonitor == Reads({"monitors", "telemetry"})
MonitorsRepo == [list |-> ListMonitors, get |-> GetMonitor, create |-> CreateMonitor,
                 update |-> UpdateMonitor, remove |-> DeleteMonitor,
                 history |-> MonitorHistory, test |-> TestMonitor]

\* Synthetic checks.  A run is stamped on its check; a check takes its runs
\* with it.
ListSynthetics == Reads({"synthetics"})
GetSynthetic == Reads({"synthetics"})
CreateSynthetic == Writes({"synthetics"})
UpdateSynthetic == Writes({"synthetics"})
DeleteSynthetic == Writes({"synthetics", "runs"})
ListRuns == Reads({"runs"})
RunSyntheticNow == Writes({"runs", "synthetics"})
SyntheticsRepo == [list |-> ListSynthetics, get |-> GetSynthetic,
                   create |-> CreateSynthetic, update |-> UpdateSynthetic,
                   remove |-> DeleteSynthetic, runs |-> ListRuns,
                   runOnce |-> RunSyntheticNow]

\* Alerting.  Deleting a channel takes it out of every rule.
ListChannels == Reads({"channels"})
CreateChannel == Writes({"channels"})
DeleteChannel == Writes({"channels", "rules"})
VerifyChannel == Writes({"channels"})
ListRules == Reads({"rules"})
CreateRule == Writes({"rules"})
UpdateRule == Writes({"rules"})
DeleteRule == Writes({"rules"})
TestRule == Reads({"rules", "telemetry"})
AlertFeed == Reads({"alertFeed"})
AlertsRepo == [channels |-> ListChannels, createChannel |-> CreateChannel,
               verifyChannel |-> VerifyChannel, removeChannel |-> DeleteChannel,
               rules |-> ListRules, createRule |-> CreateRule,
               updateRule |-> UpdateRule, removeRule |-> DeleteRule,
               testRule |-> TestRule, feed |-> AlertFeed]

\* Incidents.  An update with a new phase moves the incident; a post-mortem
\* is kept in object storage and its incident points at it.
ListIncidents == Reads({"incidents"})
GetIncident == Reads({"incidents"})
DeclareIncident == Writes({"incidents", "timelines"})
UpdateIncident == Writes({"incidents"})
ReadTimeline == Reads({"timelines"})
AddTimeline == Writes({"timelines", "incidents"})
GetPostmortem == Reads({"postmortems"})
SavePostmortem == Writes({"postmortems", "incidents"})
IncidentsRepo == [list |-> ListIncidents, get |-> GetIncident,
                  declare |-> DeclareIncident, update |-> UpdateIncident,
                  timeline |-> ReadTimeline, postUpdate |-> AddTimeline,
                  postmortem |-> GetPostmortem, savePostmortem |-> SavePostmortem]

\* Dashboards.
ListDashboards == Reads({"dashboards"})
GetDashboard == Reads({"dashboards"})
CreateDashboard == Writes({"dashboards"})
UpdateDashboard == Writes({"dashboards"})
DeleteDashboard == Writes({"dashboards"})
AddWidget == Writes({"dashboards"})
UpdateWidget == Writes({"dashboards"})
DeleteWidget == Writes({"dashboards"})
DashboardsRepo == [list |-> ListDashboards, get |-> GetDashboard,
                   create |-> CreateDashboard, update |-> UpdateDashboard,
                   remove |-> DeleteDashboard, addWidget |-> AddWidget,
                   updateWidget |-> UpdateWidget, removeWidget |-> DeleteWidget]

\* Saved views, SLOs, the service catalog, the status page.
ListViews == Reads({"views"})
CreateView == Writes({"views"})
DeleteView == Writes({"views"})
ViewsRepo == [list |-> ListViews, create |-> CreateView, remove |-> DeleteView]

ListSLOs == Reads({"slos"})
CreateSLO == Writes({"slos"})
DeleteSLO == Writes({"slos"})
SlosRepo == [list |-> ListSLOs, create |-> CreateSLO, remove |-> DeleteSLO]

ListCatalog == Reads({"catalog", "telemetry"})
CreateCatalog == Writes({"catalog"})
UpdateCatalog == Writes({"catalog"})
CatalogRepo == [list |-> ListCatalog, create |-> CreateCatalog,
                update |-> UpdateCatalog]

StatusPageConfig == Reads({"statusPage", "orgs"})
SaveStatusPage == Writes({"statusPage"})
ReadStatusPage ==
    Reads({"statusPage", "orgs", "monitors", "incidents", "timelines", "telemetry"})
StatusRepo == [bySlug |-> ReadStatusPage, config |-> StatusPageConfig,
               updateConfig |-> SaveStatusPage]

\* Telemetry: nothing the console does changes it.
ReadQuery == Reads({"telemetry"})
MetricsSummary == Reads({"telemetry"})
ReadLogs == Reads({"telemetry"})
ReadPatterns == Reads({"telemetry"})
ReadTraces == Reads({"telemetry"})
ReadTrace == Reads({"telemetry"})
ReadServices == Reads({"telemetry"})
TelemetryRepos == [query |-> ReadQuery, summary |-> MetricsSummary, logs |-> ReadLogs,
                   patterns |-> ReadPatterns, traces |-> ReadTraces,
                   trace |-> ReadTrace, services |-> ReadServices]

RumSummary == Reads({"telemetry"})
RumVitals == Reads({"telemetry"})
RumErrors == Reads({"telemetry"})
DrillDown == Reads({"telemetry"})
RumRepo == [summary |-> RumSummary, vitals |-> RumVitals, errors |-> RumErrors,
            drilldown |-> DrillDown]

ReadUsage == Reads({"telemetry", "orgs"})
UsageRepo == [report |-> ReadUsage]
=============================================================================
