---------------------------- MODULE SeedActuator ----------------------------
(***************************************************************************)
(* A reconciliation of the garden's Logging by the seed actuator: the      *)
(* resize of Loki's volume (SeedLokiVolume), then what Fluent Bit and the  *)
(* autoscaler of Loki are configured with, which is read from ConfigMaps   *)
(* that other extensions and the shoot-info own, then the chart.           *)
(*                                                                         *)
(* A ConfigMap of an extension is a sequence of filters, each of a kind:   *)
(* "plain", or a rewrite_tag filter that is replaced ("matched") or, when  *)
(* the pattern does not fit, dropped ("unmatched").  Fluent Bit's          *)
(* configuration is the sequence of [name, kind] in the order of writing,  *)
(* the filter of the event logger first.                                   *)
(***************************************************************************)
EXTENDS SeedLokiVolume, Integers, SequencesExt

CONSTANTS
    Names,          \* of ConfigMaps, as numbers in their lexical order
    Contents,       \* of ConfigMaps
    Hours,          \* at which the seed's maintenance window may begin
    HvpaEnabled,    \* is Loki scaled by an HVPA, which has a maintenance window?
    EventLogging,   \* is the feature gate eventLoggingEnabled on?
    MaxChanges      \* bound on changes of ConfigMaps

Kinds == {"plain", "matched", "unmatched"}

ASSUME SeedAssumption ==
    /\ Names \subseteq Nat \ {0} /\ IsFiniteSet(Names)
    /\ Contents \subseteq Seq(Kinds) /\ <<>> \in Contents
    /\ Hours \subseteq 0 .. 23
    /\ HvpaEnabled \in BOOLEAN /\ EventLogging \in BOOLEAN /\ MaxChanges \in Nat

VARIABLES
    cms,       \* content of each ConfigMap in the garden; <<>> when there is none
    info,      \* the hour in shoot-info, -1 when there is none
    stage,     \* of the part of the call after the resize
    list,      \* the ConfigMaps that the call has read, in the order it uses
    hour,      \* the begin of the window that the call computed
    filters,   \* Fluent Bit's configuration
    window,    \* begin of the window in Loki's HVPA
    applied,   \* history: what filters was rendered from
    changes

mine == <<cms, info, stage, list, hour, filters, window, applied, changes>>
seedVars == <<vars, mine>>

Names0 == Names \cup {0}
Filter == [name : Names0, kind : {"plain", "modify", "event"}]

DefaultHour == 22

SeedTypeOK ==
    /\ cms \in [Names -> Contents]
    /\ info \in Hours \cup {-1}
    /\ stage \in {"info", "list", "fluentbit", "loki"}
    /\ list \in Seq([name : Names, content : Contents])
    /\ hour \in 0 .. 23 /\ window \in 0 .. 23
    /\ filters \in Seq(Filter)
    /\ applied \in [Names -> Contents]
    /\ changes \in 0 .. MaxChanges

----------------------------------------------------------------------------
(* What is written. *)

\* Mistake: a rewrite_tag filter that does not fit is left as it is.
RewrittenOrKept(kind) == IF kind = "matched" THEN "modify" ELSE kind

\* rewrite_tag is replaced where the pattern fits, and skipped where it does not.
Rewritten(kind) ==
    CASE kind = "matched" -> "modify" [] kind = "unmatched" -> "skip" [] OTHER -> kind

\* The elements of a set of numbers in their order.
Ascending(S) ==
    CHOOSE s \in SetToSeqs(S) : \A i, j \in DOMAIN s : i < j => s[i] < s[j]

FiltersOf(cm) ==
    LET kinds == [i \in DOMAIN cm.content |-> Rewritten(cm.content[i])]
        kept == Ascending({i \in DOMAIN kinds : kinds[i] # "skip"})
    IN [k \in DOMAIN kept |-> [name |-> cm.name, kind |-> kinds[kept[k]]]]

EventFilter == IF EventLogging THEN <<[name |-> 0, kind |-> "event"]>> ELSE <<>>

AdditionalFilters(cmList) ==
    EventFilter \o FlattenSeq([i \in DOMAIN cmList |-> FiltersOf(cmList[i])])

Existing == {n \in Names : cms[n] # <<>>}

\* Mistake: the order of the API server's answer is kept.
Unsorted(cmList) == cmList

\* kutil.ByName().Sort
ByName(cmList) ==
    LET names == Ascending({cm.name : cm \in Range(cmList)})
    IN [i \in DOMAIN names |-> CHOOSE cm \in Range(cmList) : cm.name = names[i]]

\* Mistake: the hour is not taken modulo 24.
HourLater(h) == h + 1

\* MaintenanceTime.Add(1, 0, 0): the time of the day.
AddHour(h) == (h + 1) % 24

----------------------------------------------------------------------------
(* The owners of the ConfigMaps. *)

\* obj is never nil in an event: the first statement returns false.
IsWithLoggingLabelOrShootInfo(obj) == obj = "nil"

\* The event of a ConfigMap is admitted when the predicates of its watch say so.
ConfigMapChanges(obj) ==
    /\ changes < MaxChanges
    /\ changes' = changes + 1
    /\ due' = (due \/ IsWithLoggingLabelOrShootInfo(obj))
    /\ UNCHANGED <<size, cluster, pc, seen, outdated, fails, upgrades, stage, list, hour,
                   filters, window, applied>>

ExtensionWrites ==
    /\ \E n \in Names, c \in Contents : c # cms[n] /\ cms' = [cms EXCEPT ![n] = c]
    /\ ConfigMapChanges("logging") /\ UNCHANGED info

ShootInfoChanges ==
    /\ \E h \in Hours : h # info /\ info' = h
    /\ ConfigMapChanges("shoot-info") /\ UNCHANGED cms

----------------------------------------------------------------------------
(* The call. *)

EndStage == stage' = "info" /\ list' = <<>> /\ hour' = DefaultHour

\* The steps of the resize, which come first.
Resize ==
    /\ Call \/ GetClaim \/ ScaleToZero \/ WaitUntilScaled \/ ChangeClaim \/ DeleteStatefulSet
    /\ UNCHANGED mine

ReadShootInfo ==
    /\ pc = "apply" /\ stage = "info"
    /\ hour' = IF HvpaEnabled /\ info # -1 THEN AddHour(info) ELSE DefaultHour
    /\ stage' = "list"
    /\ UNCHANGED <<vars, cms, info, list, filters, window, applied, changes>>

\* The order of the answer is any.
ListConfigMaps ==
    /\ pc = "apply" /\ stage = "list"
    /\ \E order \in SetToSeqs(Existing) :
          list' = ByName([i \in DOMAIN order |-> [name |-> order[i], content |-> cms[order[i]]]])
    /\ stage' = "fluentbit"
    /\ UNCHANGED <<vars, cms, info, hour, filters, window, applied, changes>>

Read(cmList) ==
    [n \in Names |-> IF \E cm \in Range(cmList) : cm.name = n
                     THEN (CHOOSE cm \in Range(cmList) : cm.name = n).content
                     ELSE <<>>]

\* Mistake: the chart stops at a manifest that is rejected.
ApplyFluentBitUnlessRejected ==
    /\ pc = "apply" /\ stage = "fluentbit"
    /\ IF sts.exists /\ sts.size # size
       THEN UNCHANGED <<filters, window, applied>>
       ELSE /\ filters' = AdditionalFilters(list)
            /\ applied' = Read(list)
            /\ window' = IF HvpaEnabled THEN hour ELSE window
    /\ stage' = "loki"
    /\ UNCHANGED <<vars, cms, info, list, hour, changes>>

\* The chart's manifests are all tried: also when Loki's StatefulSet is rejected.
ApplyFluentBit ==
    /\ pc = "apply" /\ stage = "fluentbit"
    /\ filters' = AdditionalFilters(list)
    /\ applied' = Read(list)
    /\ window' = IF HvpaEnabled THEN hour ELSE window
    /\ stage' = "loki"
    /\ UNCHANGED <<vars, cms, info, list, hour, changes>>

ApplyLoki ==
    /\ stage = "loki"
    /\ ApplyChart
    /\ EndStage
    /\ UNCHANGED <<cms, info, filters, window, applied, changes>>

Reconcile ==
    Resize \/ ReadShootInfo \/ ListConfigMaps \/ ApplyFluentBit \/ ApplyLoki

\* A request fails or the process ends; a new version starts.
Broken ==
    /\ CallFails \/ Upgrade
    /\ EndStage
    /\ UNCHANGED <<cms, info, filters, window, applied, changes>>

Requested == Request /\ UNCHANGED mine

Kubernetes ==
    /\ StatefulSetController \/ RemoveClaim \/ Deliver
    /\ UNCHANGED mine

SeedInit ==
    /\ Init
    /\ cms \in [Names -> Contents]
    /\ info \in {-1} \cup Hours
    /\ stage = "info" /\ list = <<>> /\ hour = DefaultHour
    /\ filters = <<>> /\ window = DefaultHour
    /\ applied = [n \in Names |-> <<>>]
    /\ changes = 0

SeedNext ==
    \/ Reconcile \/ Broken \/ Requested \/ Kubernetes
    \/ ExtensionWrites \/ ShootInfoChanges

SeedSpec == SeedInit /\ [][SeedNext]_seedVars

\* gardenlet reconciles the seed from time to time; the queue and Kubernetes work.
SeedFairSpec ==
    /\ SeedSpec
    /\ WF_seedVars(Reconcile) /\ WF_seedVars(Requested)
    /\ WF_seedVars(StatefulSetController /\ UNCHANGED mine)
    /\ WF_seedVars(RemoveClaim /\ UNCHANGED mine) /\ WF_seedVars(Deliver /\ UNCHANGED mine)

----------------------------------------------------------------------------
(***************************************************************************)
(* Fluent Bit's configuration changes (and its pods are replaced) only when*)
(* what it is made from has changed, in whatever order the ConfigMaps are  *)
(* listed: "stable order ... to avoid unnecessary changes".                *)
(***************************************************************************)
NoIdleChange ==
    [][filters' # filters => applied' # applied \/ filters = <<>>]_seedVars

(***************************************************************************)
(* No rewrite_tag filter of an extension reaches Fluent Bit, and of every  *)
(* other filter that was read none is lost: each ConfigMap has as many     *)
(* filters as it has of the kinds that are kept.                           *)
(***************************************************************************)
FiltersOfName(n) == {i \in DOMAIN filters : filters[i].name = n}

KeptOf(content) == {i \in DOMAIN content : content[i] # "unmatched"}

OnlyKnownFilters ==
    filters # <<>> =>
    \A n \in Names :
       /\ \A i \in FiltersOfName(n) : filters[i].kind \in {"plain", "modify"}
       /\ Cardinality(FiltersOfName(n)) = Cardinality(KeptOf(applied[n]))

(***************************************************************************)
(* What an extension or the shoot-info says reaches Fluent Bit and the     *)
(* autoscaler by gardenlet's periodic requests alone (no event of a        *)
(* ConfigMap is admitted), also after an interrupted resize, when the      *)
(* StatefulSet of the same chart is rejected for ever.                     *)
(***************************************************************************)
Configured ==
    /\ applied = cms
    /\ HvpaEnabled => window = CASE info = -1 -> DefaultHour
                               [] info = 23 -> 0
                               [] OTHER -> info + 1

ConfigurationApplied == <>[]Configured

=============================================================================
