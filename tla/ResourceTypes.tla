--------------------------- MODULE ResourceTypes ----------------------------
(***************************************************************************)
(* Kinds, resources and manifests as the mock API server sees them         *)
(* (internal/serve/gvr.go, and gvkOf and parseSelector): what a document   *)
(* decodes to, which resource a kind is served under, and which labels a   *)
(* selector lets through.                                                  *)
(***************************************************************************)
EXTENDS Naturals, Sequences, TLC

CONSTANTS
    KnownTypes,     \* the table knownTypes: from kinds to their TypeInfo
    Spelled,        \* from kinds to what they are in lower case: a stem and an ending
    Matches,        \* from the selectors that parse to the labels they match
    Labels          \* the label maps of the manifests, as sets of labels

ASSUME TypesAssumption ==
    /\ \A gvk \in DOMAIN KnownTypes : KnownTypes[gvk].namespaced \in BOOLEAN
    /\ \A sel \in DOMAIN Matches : Matches[sel] \subseteq Labels
    /\ {} \in Labels

NoNamespace == ""
NoLabels == {}

\* gvkOf: the apiVersion is split at its first slash.
gvkOf(obj) ==
    IF Len(obj.apiVersion) = 1
    THEN [group |-> "", version |-> obj.apiVersion[1], kind |-> obj.kind]
    ELSE [group |-> obj.apiVersion[1], version |-> obj.apiVersion[2],
          kind |-> obj.kind]

\* What takes the place of the endings that are not just followed by an s; "y" is
\* a y after a consonant.
PluralEndings ==
    ("sis" :> "ses") @@ ("is" :> "es") @@ ("s" :> "ses") @@ ("x" :> "xes")
    @@ ("z" :> "zes") @@ ("ch" :> "ches") @@ ("sh" :> "shes") @@ ("y" :> "ies")

\* The rules look at the longest ending first, which has to follow something.
Pluralize(kind) ==
    LET word == Spelled[kind]
    IN  IF word.stem \o word.ending = "" THEN ""
        ELSE IF word.ending \in DOMAIN PluralEndings
             THEN word.stem \o PluralEndings[word.ending]
        ELSE word.stem \o word.ending \o "s"

\* A kind the table does not know is taken to be namespaced.
LookupType(gvk) ==
    IF gvk \in DOMAIN KnownTypes
    THEN KnownTypes[gvk]
    ELSE [plural |-> Pluralize(gvk.kind), namespaced |-> TRUE]

GvrOf(gvk) == [group    |-> gvk.group,
               version  |-> gvk.version,
               resource |-> LookupType(gvk).plural]

NamespaceGVK == [group |-> "", version |-> "v1", kind |-> "Namespace"]
NamespaceGVR == GvrOf(NamespaceGVK)

\* The table has the kind that the store makes up manifests of.
ASSUME NamespaceAssumption ==
    /\ NamespaceGVK \in DOMAIN KnownTypes
    /\ ~KnownTypes[NamespaceGVK].namespaced

\* What a client can tell about a manifest of a kind.  A namespaced one without a
\* namespace is in "default", unless its metadata have no room for one: then it
\* is in none, and seen only by those who ask for all namespaces.
Entry(apiVersion, kind, ns, name, labels, hasRoom) ==
    LET gvk == gvkOf([apiVersion |-> apiVersion, kind |-> kind])
    IN  [gvr |-> GvrOf(gvk), apiVersion |-> apiVersion, kind |-> kind,
         name |-> name, labels |-> labels, namespaced |-> LookupType(gvk).namespaced,
         ns |-> IF ~LookupType(gvk).namespaced THEN NoNamespace
                ELSE IF ns = NoNamespace /\ hasRoom THEN "default" ELSE ns]

\* The kinds that are said to have a /status.
isStatusSubresourceKind(kind) ==
    kind \in {"Deployment", "StatefulSet", "DaemonSet", "ReplicaSet", "Pod", "Service",
              "Namespace", "Node", "PersistentVolume", "PersistentVolumeClaim", "Ingress",
              "NetworkPolicy", "CronJob", "Job", "CustomResourceDefinition"}

\* What the handlers answer that do not look at the manifests: all is well, the
\* core group has one version, everybody may do everything.
FixedAnswers ==
    ("healthz" :> <<"ok">>) @@ ("api" :> <<"v1">>)
    @@ ("selfsubjectaccessreviews" :> <<"allowed">>)
    @@ ("selfsubjectrulesreviews" :> <<"*", "*", "*">>)

\* No selector selects everything, and so does one that does not parse.
parseSelector(sel) ==
    IF sel # "" /\ sel \in DOMAIN Matches THEN Matches[sel] ELSE Labels
=============================================================================
