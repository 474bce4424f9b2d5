------------------------------ MODULE NetworkAudit ------------------------------
(***************************************************************************)
(* One run of the network audit tool: discovery, port scans, then probes,  *)
(* classification and the vulnerability scan side by side, and the report. *)
(* The phases share one log of hosts; every nmap, RustScan or Nuclei call  *)
(* may fail, time out or show some of what there is, in any order.         *)
(* Source: tools/network-audit/{audit,audit_log,executor,parallel,         *)
(* progress,analyzer}.py, phases/, parsers/, report/generator.py.          *)
(***************************************************************************)
EXTENDS Naturals

CONSTANTS
    Hosts,      \* addresses of the network
    Gateway,    \* one of them
    Simple,     \* those of a vendor that is scanned quickly
    Methods,    \* of discovery: "arp" and the sweeps
    Shows,      \* what nmap -sV shows of an open port: "bare" without a version, "old" with one
    Modes,      \* "full" or the argument of --phase
    MaxFaults   \* bound on the phases that raise

VARIABLES
    mode,       \* of this run
    at,         \* where the run is
    log,        \* AuditLog._data["hosts"]
    disk,       \* scan_results.json
    progress,   \* progress.json: its status and errors
    tasks,      \* the calls the run waits for
    snapshot,   \* the hosts run_vulns read when it began
    shown,      \* what the tools have shown: a host, a port or finding, the port's entry
    alone,      \* hosts scanned on their own
    report,     \* the findings of the report
    faults      \* so far

vars == <<mode, at, log, disk, progress, tasks, snapshot, shown, alone, report, faults>>

\* "web" is a usual port of a usual protocol, "deep" one that only RustScan looks at.
Ports == {"web", "deep"}
None == "none"
Kinds == {"bare", "old", "probed"}

----------------------------------------------------------------------------
(* The log of hosts.                                                       *)
\* An entry of a port is "bare", "old" with a version that run_vulns knows, or "probed":
\* with what the scripts of a probe show, and without a version.
NoPorts == [p \in Ports |-> None]
Unknown == [how |-> None, vendor |-> FALSE, category |-> FALSE, ports |-> NoPorts, found |-> {}]

\* add_host: nothing that is empty replaces anything, a port's entry replaces the one of
\* before, findings are added.
Merge(h, new) ==
    [how |-> IF new.how = None THEN h.how ELSE new.how,
     vendor |-> h.vendor \/ new.vendor,
     category |-> h.category \/ new.category,
     ports |-> [p \in Ports |-> IF new.ports[p] = None THEN h.ports[p] ELSE new.ports[p]],
     found |-> h.found \cup new.found]

AddHosts(l, new) == [h \in Hosts |-> IF h \in DOMAIN new THEN Merge(l[h], new[h]) ELSE l[h]]
Findings(hosts, id) == [h \in hosts |-> [Unknown EXCEPT !.found = {id}]]

Live == {h \in Hosts : log[h].how # None}
Open(h) == {p \in Ports : log[h].ports[p] # None}
Entries(xml) == {e \in (DOMAIN xml) \X Ports \X Kinds : xml[e[1]][e[2]] = e[3]}

\* What nmap may show of the asked ports.  A call that fails, or is killed at its time-out,
\* leaves no XML or one that does not parse, and shows nothing.
XmlOf(hosts, asked, kinds) ==
    {x \in [hosts -> [Ports -> kinds \cup {None}]] :
        \A h \in hosts : \A p \in Ports \ asked : x[h][p] = None}

Record(xml) ==
    /\ log' = AddHosts(log, [h \in DOMAIN xml |-> [Unknown EXCEPT !.ports = xml[h]]])
    /\ shown' = shown \cup Entries(xml)

\* ProgressTracker: workers poll the status of a full run.
Tracked(status) == [progress EXCEPT !.status = status]

\* run_parallel: a call that ends, well or not, leaves the others alone.
Ends(t) == t \in tasks /\ tasks' = tasks \ {t}

----------------------------------------------------------------------------
Init ==
    /\ mode \in Modes /\ at = "setup"
    /\ log = [h \in Hosts |-> Unknown] /\ disk = [h \in Hosts |-> Unknown]
    /\ progress = [status |-> None, errors |-> {}]
    /\ tasks = {} /\ snapshot = log /\ shown = {} /\ alone = {} /\ report = {} /\ faults = 0

\* run_setup; a full run keeps a progress file, and ends here without a subnet.
Setup ==
    /\ at = "setup"
    /\ \/ at' = "discovery" /\ progress' = IF mode = "full" THEN Tracked("running") ELSE progress
       \/ mode = "full" /\ at' = "failed" /\ UNCHANGED progress
    /\ UNCHANGED <<mode, log, disk, tasks, snapshot, shown, alone, report, faults>>

\* The methods run side by side; the first to end of those that found a host names it.  A
\* method that fails finds none.
Heard == [Hosts -> Methods \cup {None}]

\* get_vendor, which a full run asks for its hosts: not every one has told its MAC.
Named(hosts) == IF mode = "full" THEN SUBSET (hosts \cap Simple) ELSE {{}}

Discover ==
    /\ at = "discovery" /\ at' = "triage"
    /\ \E how \in Heard :
         LET hosts == {h \in Hosts : how[h] # None} IN
         /\ disk' = AddHosts(log, [h \in hosts |-> [Unknown EXCEPT !.how = how[h]]])
         /\ \E known \in Named(hosts) :
               log' = AddHosts(disk', [h \in known |-> [Unknown EXCEPT !.vendor = TRUE]])
    /\ UNCHANGED <<mode, progress, tasks, snapshot, shown, alone, report, faults>>

----------------------------------------------------------------------------
(* Phase 2: port scans.                                                    *)

\* triage_hosts: a simple device is known by its vendor; a gateway is scanned in full.
Quick == {h \in Live : log[h].vendor /\ h # Gateway}
Tier(t) == IF t = "quick" THEN Quick ELSE Live \ Quick

\* A scan has nothing to do without hosts, and is not asked for to classify.
StartScan ==
    /\ at = "triage"
    /\ IF mode # "classify" /\ Live # {}
       THEN at' = "scan" /\ tasks' = {t \in {"quick", "full"} : Tier(t) # {}}
       ELSE at' = "assess" /\ UNCHANGED tasks
    /\ UNCHANGED <<mode, log, disk, progress, snapshot, shown, alone, report, faults>>

\* One nmap call for the hosts of a tier.
ScanBatch(t) ==
    /\ at = "scan" /\ Ends(t)
    /\ \E xml \in XmlOf(Tier(t), {"web"}, Shows) : Record(xml)
    /\ UNCHANGED <<mode, at, disk, progress, snapshot, alone, report, faults>>

\* _pick_interesting_hosts: the gateway, and such hosts as have several usual ports open.
Interesting ==
    {hosts \in SUBSET Tier("full") :
        (Gateway \in Live => Gateway \in hosts) /\ \A h \in hosts : h = Gateway \/ Open(h) # {}}

\* RustScan, where there is one, sweeps them; the ports nmap has not shown are recorded at
\* once, and nmap is asked about them.
Sweep ==
    /\ at = "scan" /\ tasks = {} /\ at' = "enum"
    /\ \E hosts \in {{}} \cup Interesting : \E ports \in [hosts -> SUBSET Ports] :
         LET new == [h \in hosts |-> [p \in Ports |-> IF p \in ports[h] \ Open(h) THEN "bare" ELSE None]]
         IN  Record(new) /\ tasks' = Entries(new)
    /\ UNCHANGED <<mode, disk, progress, snapshot, alone, report, faults>>

\* _scan_batch_nmap_specific: one call asks all its hosts about all its ports.
Enumerate ==
    /\ at = "enum" /\ tasks # {} /\ tasks' = {}
    /\ \E xml \in XmlOf({t[1] : t \in tasks}, {t[2] : t \in tasks}, Shows) : Record(xml)
    /\ UNCHANGED <<mode, at, disk, progress, snapshot, alone, report, faults>>

\* _find_silent_hosts: in the ARP cache, but no port is open.
Silent == {h \in Live : log[h].how = "arp" /\ Open(h) = {}}

StartRetry ==
    /\ at = "enum" /\ tasks = {} /\ at' = "retry" /\ tasks' = Silent
    /\ UNCHANGED <<mode, log, disk, progress, snapshot, shown, alone, report, faults>>

Retry(h) ==
    /\ at = "retry" /\ Ends(h) /\ alone' = alone \cup {h}
    /\ \E xml \in XmlOf({h}, {"web"}, Shows) : Record(xml)
    /\ UNCHANGED <<mode, at, disk, progress, snapshot, report, faults>>

ScanEnds ==
    /\ at = "retry" /\ tasks = {} /\ at' = "assess" /\ disk' = log
    /\ UNCHANGED <<mode, log, progress, tasks, snapshot, shown, alone, report, faults>>

----------------------------------------------------------------------------
(* Phases 3 to 5, side by side.                                            *)

Phases == IF mode = "full" THEN {"probes", "classify", "vulns"} ELSE {mode} \ {"scanning"}
CallsOf(phase) == CASE phase = "probes" -> {"probe", "panels"} [] phase = "vulns" -> {"cves"} [] OTHER -> {}

\* run_probes asks about the usual ports and about those whose service nmap knows.
Wanted(h) == {p \in Open(h) : p = "web" \/ log[h].ports[p] = "old"}
Probed == {h \in Live : Wanted(h) # {}}

\* run_classify gives every host a category.
Classified(l) == AddHosts(l, [h \in Live |-> [Unknown EXCEPT !.category = TRUE]])

\* The event loop runs each phase up to its first call before any call ends: run_classify,
\* which has none, to its end, and run_vulns to its list of hosts.
Assess ==
    /\ at = "assess" /\ at' = "wait"
    /\ log' = IF "classify" \in Phases THEN Classified(log) ELSE log
    /\ snapshot' = log'
    /\ disk' = IF "classify" \in Phases \/ (Live = {} /\ Phases # {}) THEN log' ELSE disk
    /\ tasks' = IF Live = {} THEN {} ELSE UNION {CallsOf(p) : p \in Phases}
    /\ UNCHANGED <<mode, progress, shown, alone, report, faults>>

\* A phase saves the log when its last call has ended.
Saved(phase) == disk' = IF CallsOf(phase) \cap tasks' = {} THEN log' ELSE disk

\* One nmap call asks the hosts of a batch about the ports of all of them.
ProbeBatch ==
    /\ at = "wait" /\ Ends("probe")
    /\ \E xml \in XmlOf(Probed, UNION {Wanted(h) : h \in Probed}, {"probed"}) : Record(xml)
    /\ Saved("probes")
    /\ UNCHANGED <<mode, at, progress, snapshot, alone, report, faults>>

\* Nuclei, where there is one, shows findings of the hosts it is pointed at.
NucleiBatch(hosts, id) ==
    /\ log' = AddHosts(log, Findings(hosts, id))
    /\ shown' = shown \cup hosts \X {id} \X {"finding"}

Panels ==
    /\ at = "wait" /\ Ends("panels")
    /\ \E hosts \in SUBSET {h \in Live : Open(h) # {}} : NucleiBatch(hosts, "panel")
    /\ Saved("probes")
    /\ UNCHANGED <<mode, at, progress, snapshot, alone, report, faults>>

\* _check_known_vulnerable_versions of the hosts as run_vulns read them: a later entry is
\* put into a host of its own in the log.
Outdated == {h \in Live : \E p \in Ports : snapshot[h].ports[p] = "old"}

Vulns ==
    /\ at = "wait" /\ Ends("cves")
    /\ \E hosts \in SUBSET Live :
         /\ log' = AddHosts(AddHosts(log, Findings(hosts, "cve")), Findings(Outdated, "version"))
         /\ shown' = shown \cup hosts \X {"cve"} \X {"finding"}
    /\ Saved("vulns")
    /\ UNCHANGED <<mode, at, progress, snapshot, alone, report, faults>>

\* _run_phase_safe: what a phase raises stops the others of a full run no more than their
\* calls, and is noted; it ends a run of this phase alone.
Raises(phase) ==
    /\ at = "wait" /\ CallsOf(phase) \cap tasks # {} /\ faults < MaxFaults /\ faults' = faults + 1
    /\ IF mode = "full" THEN /\ tasks' = tasks \ CallsOf(phase) /\ UNCHANGED at
                             /\ progress' = [progress EXCEPT !.errors = @ \cup {phase}]
       ELSE at' = "failed" /\ tasks' = {} /\ UNCHANGED progress
    /\ UNCHANGED <<mode, log, disk, snapshot, shown, alone, report>>

Finish ==
    /\ at = "wait" /\ tasks = {} /\ disk' = log
    /\ IF mode = "full" THEN at' = "report" /\ progress' = Tracked("completed")
       ELSE at' = "done" /\ UNCHANGED progress
    /\ UNCHANGED <<mode, log, tasks, snapshot, shown, alone, report, faults>>

\* analyze looks at the services and scripts of the ports, not at the findings of a host.
Analyze(hosts) == {e \in Hosts \X Ports : hosts[e[1]].ports[e[2]] = "probed"}

Report ==
    /\ at = "report" /\ at' = "done" /\ report' = Analyze(disk)
    /\ UNCHANGED <<mode, log, disk, progress, tasks, snapshot, shown, alone, faults>>

\* What discovery, a scan or the report raises ends the run, as the user may: all that is
\* left of it is what it has written.
Dies ==
    /\ at \notin {"done", "failed"} /\ faults < MaxFaults /\ faults' = faults + 1
    /\ at' = "failed" /\ tasks' = {} /\ log' = disk /\ snapshot' = disk /\ alone' = {}
    /\ UNCHANGED <<mode, disk, progress, shown, report>>

Next ==
    \/ Setup \/ Discover \/ StartScan \/ (\E t \in {"quick", "full"} : ScanBatch(t)) \/ Sweep \/ Enumerate
    \/ StartRetry \/ (\E h \in Hosts : Retry(h)) \/ ScanEnds \/ Assess \/ ProbeBatch \/ Panels \/ Vulns
    \/ (\E phase \in Phases : Raises(phase)) \/ Finish \/ Report \/ Dies

Spec == Init /\ [][Next]_vars

----------------------------------------------------------------------------
\* State of the expected types: only found hosts have anything, and a run waits for calls
\* only where it makes some.
TypeOK ==
    /\ mode \in Modes /\ faults \in 0..MaxFaults
    /\ tasks # {} => at \in {"scan", "enum", "retry", "wait"}
    /\ \A h \in Hosts \ Live : log[h] = Unknown /\ snapshot[h] = Unknown /\ disk[h] = Unknown
    /\ \A h \in Hosts : log[h].found \subseteq {"panel", "cve", "version"}
    /\ alone \subseteq Live /\ report \subseteq Live \X Ports

\* Whatever failed, a completed run has saved every port and every finding a tool showed.
FoundKept ==
    progress.status = "completed" \/ at = "done" =>
        \A e \in shown : IF e[2] \in Ports THEN disk[e[1]].ports[e[2]] # None ELSE e[2] \in disk[e[1]].found

\* Every version that was known to be old when the scans had ended is a finding, although
\* the entry of its port may be replaced by a probe's, without a version, meanwhile.
OldFound ==
    at \in {"report", "done"} /\ "vulns" \in Phases \ progress.errors =>
        \A h \in Hosts : (\E p \in Ports : snapshot[h].ports[p] = "old") => "version" \in disk[h].found

\* A host from the ARP cache of which the batches showed no port was scanned on its own.
SilentScanned ==
    at \in {"assess", "wait", "report", "done"} /\ mode # "classify" =>
        \A h \in Hosts : log[h].how = "arp" /\ Open(h) = {} => h \in alone

\* The report has all that the probes showed.
ReportComplete ==
    at = "done" /\ mode = "full" => \A e \in shown : e[3] = "probed" => <<e[1], e[2]>> \in report
=============================================================================
