------------------------------- MODULE Pages -------------------------------
(***************************************************************************)
(* The screens of the web console (src/web/src/app), reduced to what the   *)
(* state behind them decides: each panel waits for some hooks, then shows  *)
(* their data or, when it has none, says something else; each button runs  *)
(* one operation of a controller.  Layout, wording and colours are left    *)
(* out.  A page is the union of its sections.                              *)
(***************************************************************************)
EXTENDS Controllers

(***************************************************************************)
(* How a panel waits:                                                      *)
(*   "never"   it shows whatever there is                                  *)
(*   "loading" a skeleton while any of its hooks is loading                *)
(*   "either"  a skeleton while one is loading or has no data              *)
(*   "first"   a skeleton only while it loads for the first time           *)
(*   "matching" a skeleton until what it has is what is selected           *)
(* What it says once it waits no longer and has no data:                   *)
(*   "claim"   that there is nothing ("No incidents", "Rule not found")    *)
(*   "blank"   nothing at all                                              *)
(***************************************************************************)
Panel(hooks, waits, lacking) == [hooks |-> hooks, waits |-> waits, lacking |-> lacking]
Skeleton(hooks, lacking) == Panel(hooks, "loading", lacking)
Loaded(hooks) == Panel(hooks, "either", "blank")
Bare(hooks) == Panel(hooks, "never", "blank")

\* A guarded button is disabled until its own press has ended.  A page that
\* shares one flag between two buttons names the same lock twice; pressing
\* a free button again starts the operation again.
Guarded(op, lock) == [op |-> op, lock |-> lock]
Free(op) == [op |-> op, lock |-> "none"]

Section(panels, buttons) == [panels |-> panels, buttons |-> buttons]

----------------------------------------------------------------------------
(* The shell.  Its hooks load once: no operation of a page reloads them.   *)

ShellBar ==
    Section({Bare({"shellOrg"}), Bare({"shellOrgs"}), Bare({"shellFeed"})},
            {Free(Shell.ops.switchOrg)})
ShellBanner == Section({Skeleton({"shellIncidents"}, "blank")}, {})

HomePage ==
    Section({Loaded({"tiles"}), Skeleton({"homeDashboards"}, "blank"),
             Skeleton({"homeFeed"}, "claim"), Skeleton({"homeSlos"}, "claim")}, {})

OnboardingPage ==
    Section({Panel({"onboarding"}, "first", "blank")},
            {Guarded(Onboarding.ops.createOrg, "creating")})

----------------------------------------------------------------------------
(* Incidents.                                                              *)

IncidentsPage == Section({Skeleton({"incidents"}, "claim")}, {})

\* The modal keeps a list of its own; cancelling it does not stop the press.
DeclareIncidentModal ==
    Section({Bare({"members"}), Bare({"incidents"})},
            {Guarded(Incidents.ops.declare, "declaring")})

\* Reloading the incident takes the composer, and what is typed in it, away.
IncidentPage ==
    Section({Loaded({"incident"}), Panel({"timeline"}, "never", "claim")},
            {Guarded(OneIncident.ops.postUpdate, "posting"),
             Guarded(OneIncident.ops.postWithSev, "posting")})

\* Without a document it offers to start one.
PostmortemSection ==
    Section({Skeleton({"postmortem"}, "claim")},
            {Guarded(OneIncident.ops.savePostmortem, "saving")})

----------------------------------------------------------------------------
(* Monitors (alert rules).                                                 *)

RulesSection == Section({Skeleton({"rules"}, "claim")}, {})
ChannelsSection ==
    Section({Skeleton({"channels"}, "blank")},
            {Free(Alerts.ops.verifyChannel), Free(Alerts.ops.removeChannel)})
TriggeredSection == Section({Skeleton({"feed"}, "claim")}, {})
SelectedRule == Section({Skeleton({"rules"}, "blank"), Bare({"channels"})}, {})

\* Saving is disabled while it runs; its errors go to the page.
RuleEditor == Section({}, {Guarded(Alerts.ops.updateRule, "saving")})

\* Both kinds of monitor are created here under one flag.
NewMonitorPage ==
    Section({Bare({"channels"})},
            {Guarded(Alerts.ops.createRule, "saving"),
             Guarded(Monitors.ops.createMonitor, "saving")})

RuleReplayPage == Section({Skeleton({"ruleRules"}, "claim")}, {})

----------------------------------------------------------------------------
(* Uptime and synthetic checks.                                            *)

UptimePage ==
    Section({Skeleton({"cards", "monitors"}, "claim"),
             Skeleton({"synthetics"}, "claim"), Skeleton({"monitors"}, "claim")},
            {Free(Monitors.ops.setMuted)})

MonitorDetailPage == Section({Loaded({"monitor"}), Loaded({"history"})}, {})
RelatedIncidents == Section({Skeleton({"incidents"}, "claim")}, {})

\* Saving and running once share one flag; run once saves first.
SyntheticCheckBuilder ==
    Section({Bare({"synthetics"}), Bare({"monitors"})},
            {Guarded(Synthetics.ops.createCheck, "busy"),
             Guarded(Synthetics.ops.updateCheck, "busy"),
             Guarded(Monitors.ops.createMonitor, "busy")})
BuilderRunsOnce ==
    Section({Bare({"synthetics"})}, {Guarded(Synthetics.ops.runOnce, "busy")})

\* Waits for both; without a check it claims the check is gone, without runs
\* that there are none yet.
SyntheticRunPage ==
    Section({Skeleton({"check", "runs"}, "claim"), Bare({"contextMonitors"}),
             Bare({"contextHistory"})}, {})


\* The page reloads its own runs once the controller's press has ended; the
\* list of checks that press reloads is not on this page.
RunHere == [Synthetics.ops.runOnce EXCEPT !.reloads = {"runs"}]
RunTimeline == Section({Skeleton({"runs"}, "claim")}, {Free(RunHere)})

EditCheckPage ==
    Section({Skeleton({"builtCheck"}, "claim")}, {Free(Synthetics.ops.removeCheck)})

----------------------------------------------------------------------------
(* Dashboards.                                                             *)

DashboardsPage ==
    Section({Skeleton({"dashboards"}, "claim")}, {Free(Dashboards.ops.toggleFavorite)})
CreateModal == Section({}, {Guarded(Dashboards.ops.createDashboard, "creating")})
ImportModal == Section({}, {Guarded(Dashboards.ops.importJson, "importing")})

\* Reloading the dashboard takes an open widget editor away as well.
DashboardPage ==
    Section({Loaded({"dashboard"})}, {Free(OneDashboard.ops.moveWidget)})
DashboardGrid ==
    Section({}, {Free(OneDashboard.ops.removeWidget),
                 Free(OneDashboard.ops.duplicateWidget)})
WidgetEditor ==
    Section({}, {Guarded(OneDashboard.ops.addWidget, "saving"),
                 Guarded(OneDashboard.ops.updateWidget, "saving")})
WidgetBody ==
    Section({Skeleton({"widgetQuery"}, "blank"), Bare({"widgetLogs"}),
             Bare({"widgetSlos"}), Bare({"widgetMonitors"}), Bare({"widgetServices"})}, {})

----------------------------------------------------------------------------
(* Telemetry.                                                              *)

LogsBar == Section({Bare({"views"})}, {})
LogsOverTime == Section({Skeleton({"logs"}, "blank")}, {})
LogList == Section({Skeleton({"logs"}, "claim")}, {})
PatternsPanel == Section({Loaded({"patterns"})}, {})

MetricsPage ==
    Section({Skeleton({"views"}, "blank"), Skeleton({"services"}, "blank"),
             Bare({"summary"})}, {})
\* The chart keeps the last answer under a failed query, which it names.
MetricsChart == Section({Bare({"metric"})}, {})
SaveToDashboardModal ==
    Section({Bare({"dashboards"})}, {Free(MetricsExplorer.ops.saveToDashboard)})
SaveViewModal == Section({}, {Guarded(SavedViews.ops.saveView, "saving")})
MetricsSummaryPage == Section({Skeleton({"summary"}, "claim")}, {})

ApmServicesPage == Section({Skeleton({"services"}, "claim")}, {})
TraceList == Section({Skeleton({"traces"}, "claim")}, {})
\* The drawer shows a trace only under its own id.
TraceDrawer ==
    Section({Panel({"trace"}, "matching", "blank"), Bare({"traceLogs"})}, {})
ServiceMapPage == Section({Skeleton({"services"}, "claim")}, {})
ServiceDetailPage == Section({Bare({"services"}), Skeleton({"traces"}, "claim")}, {})
ServiceLatency == Section({Skeleton({"latency"}, "blank")}, {})

\* No page views and no answer look alike: both show the empty state.
RumPage ==
    Section({Skeleton({"rumSummary"}, "claim"), Bare({"properties"}),
             Skeleton({"rumSummary", "vitals"}, "blank")}, {})
RumCharts == Section({Skeleton({"rumSummary"}, "blank"), Skeleton({"vitals"}, "blank")}, {})
RumErrorGroups == Section({Skeleton({"rumErrors"}, "claim")}, {})
RumDrilldownPage ==
    Section({Skeleton({"sessions"}, "claim"), Loaded({"drilldown"}),
             Bare({"drilldownProperties"})}, {})
RumNewPage == Section({}, {Guarded(RumProperty.ops.createProperty, "creating")})

----------------------------------------------------------------------------
(* Services, SLOs, settings, the status page.                              *)

ServiceCatalogPage ==
    Section({Skeleton({"catalog"}, "claim"), Loaded({"detail"}),
             Bare({"catalogServices"})}, {})

SlosPage ==
    Section({Skeleton({"slos"}, "claim"), Bare({"monitors"})},
            {Guarded(Slos.ops.createSlo, "creating")})

OrgSection == Section({Loaded({"org"})}, {Free(OrgProfile.ops.updateOrg)})

\* The secret of a new or rotated key is shown once the keys have reloaded.
KeysSection ==
    Section({Skeleton({"keys"}, "claim")},
            {Guarded(Settings.ops.createKey, "creating"),
             Free(Settings.ops.rotateKey), Free(Settings.ops.revokeKey)})

MembersSection ==
    Section({Skeleton({"members"}, "blank")},
            {Guarded(Settings.ops.inviteMember, "inviting"),
             Free(Settings.ops.setMemberRole)})

IntegrationsSection ==
    Section({Skeleton({"channels"}, "blank")},
            {Free(Alerts.ops.verifyChannel), Free(Alerts.ops.removeChannel)})

UsagePage == Section({Loaded({"usage"})}, {})

\* Save is disabled only while nothing has been edited.
StatusPageBuilderPage ==
    Section({Loaded({"config"}), Skeleton({"monitors"}, "blank")},
            {Free(StatusPageBuilder.ops.saveConfig)})

PublicStatusPage == Section({Skeleton({"status"}, "claim")}, {})

----------------------------------------------------------------------------
\* What is on the screen together.  The shell is around all but the public
\* status page.
Bodies ==
    {{HomePage}, {OnboardingPage}, {IncidentsPage, DeclareIncidentModal},
     {IncidentPage, PostmortemSection},
     {RulesSection, ChannelsSection, TriggeredSection, SelectedRule, RuleEditor},
     {NewMonitorPage}, {RuleReplayPage}, {UptimePage},
     {MonitorDetailPage, RelatedIncidents}, {SyntheticCheckBuilder, BuilderRunsOnce},
     {SyntheticRunPage, RunTimeline}, {EditCheckPage},
     {DashboardsPage, CreateModal, ImportModal},
     {DashboardPage, DashboardGrid, WidgetEditor, WidgetBody},
     {LogsBar, LogsOverTime, LogList, PatternsPanel},
     {MetricsPage, MetricsChart, SaveToDashboardModal, SaveViewModal},
     {MetricsSummaryPage}, {ApmServicesPage}, {TraceList, TraceDrawer},
     {ServiceMapPage}, {ServiceDetailPage, ServiceLatency},
     {RumPage, RumCharts, RumErrorGroups}, {RumDrilldownPage}, {RumNewPage},
     {ServiceCatalogPage}, {SlosPage}, {OrgSection}, {KeysSection}, {MembersSection},
     {IntegrationsSection}, {UsagePage}, {StatusPageBuilderPage}}
Screens == {body \cup {ShellBar, ShellBanner} : body \in Bodies} \cup {{PublicStatusPage}}
=============================================================================
