---------------------------- MODULE ResourceSum -----------------------------
(***************************************************************************)
(* The sum of requests and limits and the assertions about it              *)
(* (pkg/engine/sum.go).  Something optional is a set with at most one      *)
(* element; a quantity or a number that does not parse, or is negative, is *)
(* -1.  A document has replicas (optional), generated (it has a            *)
(* generateName) and pods: for each of the three paths where containers    *)
(* may be, an optional sequence of containers.                             *)
(***************************************************************************)
EXTENDS Manifests

Categories == {"requests", "limits"}
Resources  == {"cpu", "memory"}
Malformed  == -1

NoTotals == [c \in Categories |-> [r \in Resources |-> 0]]

TheOnly(S) == CHOOSE x \in S : TRUE

AtMostOne(S) == \A x, y \in S : x = y

\* What a container says about a resource, if it says anything.
Amount(con, c, r) == UNION {a[r] : a \in con[c]}

\* What a document may be: as above, and what has typed metadata has metadata.
IsDocument(d) ==
    /\ d.typed => d.hasMeta
    /\ AtMostOne(d.replicas) /\ d.replicas \subseteq Int
    /\ DOMAIN d.pods = 1..3
    /\ \A p \in 1..3 :
         /\ AtMostOne(d.pods[p])
         /\ \A cs \in d.pods[p] :
              /\ cs \in Seq(ToSet(cs))
              /\ \A con \in ToSet(cs), c \in Categories, r \in Resources :
                   AtMostOne(Amount(con, c, r)) /\ Amount(con, c, r) \subseteq Int

WellFormed(con) ==
    \A c \in Categories, r \in Resources : Malformed \notin Amount(con, c, r)

addContainerResources(totals, con) ==
    [c \in Categories |-> [r \in Resources |->
       totals[c][r] + IF Amount(con, c, r) = {} THEN 0
                      ELSE TheOnly(Amount(con, c, r))]]

\* The paths are visited in turn and all that is there is added up.
containersOf(d) ==
    FlattenSeq([p \in DOMAIN d.pods |->
                  IF d.pods[p] = {} THEN << >> ELSE TheOnly(d.pods[p])])

\* Nothing, if some container is malformed.
getPodResources(d) ==
    IF \E i \in DOMAIN containersOf(d) : ~WellFormed(containersOf(d)[i]) THEN {}
    ELSE {FoldLeft(addContainerResources, NoTotals, containersOf(d))}

\* Mutant: no replicas are taken for one.
replicasAtLeastOne(d) ==
    IF d.replicas \in {{}, {0}} THEN {1} ELSE d.replicas \ {Malformed}

getReplicas(d) ==
    IF d.replicas = {} THEN {1} ELSE d.replicas \ {Malformed}

\* Only the containers of the first path that is there are looked at.
checkResources(d, require) ==
    LET paths == {p \in DOMAIN d.pods : d.pods[p] # {}}
        first == CHOOSE p \in paths : \A q \in paths : p <= q
    IN  paths # {} =>
          \A i \in DOMAIN TheOnly(d.pods[first]), c \in require, r \in Resources :
            Amount(TheOnly(d.pods[first])[i], c, r) # {}

\* sumResourceMeta accepts the document.
Accountable(d) ==
    /\ d.form = "mapping" /\ d.typed
    /\ d.apiVersion # "" /\ d.kind # ""
    /\ d.name # "" \/ d.generated

\* One turn of the loop over the documents; a malformed one ends it.
Account(acc, d, opts) ==
    IF acc.invalid \/ ~Accountable(d) THEN [acc EXCEPT !.invalid = TRUE]
    ELSE IF ~Match(d, opts.match, "and") THEN acc
    ELSE IF getPodResources(d) = {} \/ getReplicas(d) = {}
         THEN [acc EXCEPT !.invalid = TRUE]
    ELSE LET pod == TheOnly(getPodResources(d))
             n   == TheOnly(getReplicas(d))
         IN  [acc EXCEPT !.totals = [c \in Categories |-> [r \in Resources |->
                                       @[c][r] + n * pod[c][r]]],
                         !.missing = @ \/ ~checkResources(d, opts.require)]

validateThresholds(opts) ==
    \A c \in Categories, r \in Resources : Malformed \notin opts.max[c][r]

\* The thresholds that are exceeded.
buildAssertions(totals, opts) ==
    {cr \in Categories \X Resources :
       \E t \in opts.max[cr[1]][cr[2]] : totals[cr[1]][cr[2]] > t}

SumJSON(nodes, opts) ==
    LET account(acc, d) == Account(acc, d, opts)
        sum == FoldLeft(account, [invalid |-> ~validateThresholds(opts),
                                  totals |-> NoTotals, missing |-> FALSE], nodes)
        exceeded == buildAssertions(sum.totals, opts)
    IN  [invalid |-> sum.invalid, totals |-> sum.totals,
         passed |-> exceeded = {} /\ ~sum.missing]
=============================================================================
