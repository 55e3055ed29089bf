----------------------------- MODULE AlertEngine -----------------------------
(***************************************************************************)
(* The engine of alerts, alert.go, with its bucket in the store (store.go     *)
(* AddAlert, ClearAlerts, SaveAlertConfig).  A round reads the configuration   *)
(* and the sessions once, then takes a sample of each session and compares it. *)
(* The configuration lies among the records, and the bucket is trimmed by the  *)
(* order of its random keys.                                                   *)
(***************************************************************************)
EXTENDS Integers, FiniteSets

CONSTANTS
    Clients,                \* sessions
    Metrics,
    RecordKeys,             \* numbers: random keys of records, in their order
    ConfigKey,              \* the place of "config" among them
    MaxRecords              \* at least 1 (200): what the bucket holds

VARIABLES
    bucket,                 \* keys in the store
    config,                 \* what lies under ConfigKey: the switch and the metrics with
                            \* a threshold
    sessions, high, reachable,  \* which are open, what is over its threshold, and whether
                            \* a session answers
    round, armed,           \* sessions still to look at, and metrics to compare
    client, reading,         \* the session in hand and metrics to compare for it, with
                            \* what was read
    firing,
    excess                  \* observation: alerts told less recoveries told

vars == <<bucket, config, sessions, high, reachable, round, armed, client, reading,
          firing, excess>>

None == "none"
Values == {"unread", "low", "high"}
NoSample == [m \in Metrics |-> "unread"]
NoConfig == [on |-> FALSE, armed |-> {}]

TypeOK ==
    /\ bucket \subseteq RecordKeys \cup {ConfigKey} /\ Cardinality(bucket) <= MaxRecords + 1
    /\ config \in [on : BOOLEAN, armed : SUBSET Metrics]
    /\ sessions \subseteq Clients /\ high \subseteq Clients \X Metrics /\ reachable \subseteq Clients
    /\ round \subseteq Clients /\ armed \subseteq Metrics
    /\ client \in Clients \cup {None} /\ reading \in [Metrics -> Values]
    /\ firing \subseteq Clients \X Metrics /\ excess \in [Clients \X Metrics -> Int]

Init ==
    /\ bucket = {} /\ config = NoConfig
    /\ sessions = Clients /\ high = {} /\ reachable = Clients
    /\ round = {} /\ armed = {} /\ client = None /\ reading = NoSample
    /\ firing = {} /\ excess = [k \in Clients \X Metrics |-> 0]

\* GetAlertConfig: without an entry everything is zero, and alerts are off.
Config == IF ConfigKey \in bucket THEN config ELSE NoConfig

env == <<config, sessions, high, reachable>>

-----------------------------------------------------------------------------
(* The engine *)

\* A tick, and checkAlerts up to the snapshot of the sessions.  With alerts off, or a
\* configuration that cannot be read, there is no round.
CheckAlerts ==
    /\ round = {} /\ client = None
    /\ IF Config.on THEN round' = sessions /\ armed' = Config.armed ELSE UNCHANGED <<round, armed>>
    /\ UNCHANGED <<bucket, env, client, reading, firing, excess>>

\* sampleUsage: what cannot be read counts as 0.  A session that is gone has no label
\* and is passed over.
SampleUsage(c) ==
    /\ c \in round /\ client = None
    /\ round' = round \ {c}
    /\ IF c \in sessions
       THEN /\ client' = c
            /\ reading' = [m \in Metrics |->
                 IF m \notin armed THEN "unread"
                 ELSE IF c \in reachable /\ <<c, m>> \in high THEN "high" ELSE "low"]
       ELSE UNCHANGED <<client, reading>>
    /\ UNCHANGED <<bucket, env, armed, firing, excess>>

\* AddAlert: the key is new, and the smallest keys are deleted above the limit, be they
\* old or new, a record or the configuration.  An error of the store is ignored.
AddAlert ==
    \/ \E k \in RecordKeys \ bucket :
         LET all == bucket \cup {k}
         IN  bucket' = {x \in all : Cardinality({y \in all : y >= x}) <= MaxRecords}
    \/ UNCHANGED bucket

Compared(m) ==
    /\ client # None /\ reading[m] # "unread"
    /\ reading' = [reading EXCEPT ![m] = "unread"]
    /\ UNCHANGED <<env, round, armed, client>>

\* evalMetric, with fireAlert: told once when it begins and once when it ends.
Fires(m) ==
    /\ Compared(m) /\ reading[m] = "high" /\ <<client, m>> \notin firing
    /\ firing' = firing \cup {<<client, m>>}
    /\ excess' = [excess EXCEPT ![<<client, m>>] = @ + 1]
    /\ AddAlert

Recovers(m) ==
    /\ Compared(m) /\ reading[m] = "low" /\ <<client, m>> \in firing
    /\ firing' = firing \ {<<client, m>>}
    /\ excess' = [excess EXCEPT ![<<client, m>>] = @ - 1]
    /\ AddAlert

StaysAsTold(m) ==
    /\ Compared(m) /\ (reading[m] = "high") = (<<client, m>> \in firing)
    /\ UNCHANGED <<bucket, firing, excess>>

\* The next session of the round.
NextSession ==
    /\ client # None /\ reading = NoSample
    /\ client' = None
    /\ UNCHANGED <<bucket, env, round, armed, reading, firing, excess>>

-----------------------------------------------------------------------------
(* The user, the machines and the program *)

engine == <<round, armed, client, reading, firing, excess>>

SaveAlertConfig(on, metrics) ==
    /\ config' = [on |-> on, armed |-> metrics] /\ bucket' = bucket \cup {ConfigKey}
    /\ UNCHANGED <<sessions, high, reachable, engine>>

ClearAlerts ==
    /\ bucket' = bucket \cap {ConfigKey}
    /\ UNCHANGED <<env, engine>>

\* The usage of a machine passes the threshold, in one direction or the other.
UsageChanges(c, m) ==
    /\ high' = IF <<c, m>> \in high THEN high \ {<<c, m>>} ELSE high \cup {<<c, m>>}
    /\ UNCHANGED <<bucket, config, sessions, reachable, engine>>

\* A session stops answering, or answers again.
LinkChanges(c) ==
    /\ reachable' = IF c \in reachable THEN reachable \ {c} ELSE reachable \cup {c}
    /\ UNCHANGED <<bucket, config, sessions, high, engine>>

\* A session ends; what was firing for it stays in the map.
SessionEnds(c) ==
    /\ c \in sessions
    /\ sessions' = sessions \ {c}
    /\ UNCHANGED <<bucket, config, high, reachable, engine>>

Engine == CheckAlerts \/ NextSession \/ (\E c \in Clients : SampleUsage(c))
          \/ (\E m \in Metrics : Fires(m) \/ Recovers(m) \/ StaysAsTold(m))

Next ==
    \/ Engine
    \/ \E on \in BOOLEAN, metrics \in SUBSET Metrics : SaveAlertConfig(on, metrics)
    \/ ClearAlerts
    \/ \E c \in Clients : LinkChanges(c) \/ SessionEnds(c) \/ \E m \in Metrics : UsageChanges(c, m)

Spec == Init /\ [][Next]_vars

-----------------------------------------------------------------------------

\* Alerts and recoveries of a metric alternate, beginning with an alert, whatever the
\* user configures between them.
AlertsAlternate == \A k \in Clients \X Metrics : excess[k] \in {0, 1}

\* A usage above its threshold is told, and that it fell is told, unless it changes first,
\* the session does not answer or ends, the alerts are off or their configuration was
\* trimmed away.
Armed(c, m) == Config.on /\ m \in Config.armed /\ c \in sessions
Untold(c, m) ==
    /\ Armed(c, m)
    /\ \/ <<c, m>> \in high /\ c \in reachable /\ excess[c, m] = 0
       \/ <<c, m>> \notin high /\ excess[c, m] = 1
=============================================================================
