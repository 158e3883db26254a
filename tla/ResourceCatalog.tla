-------------------------- MODULE ResourceCatalog ---------------------------
(***************************************************************************)
(* What the mock API server promises its clients about the manifests it    *)
(* was given: every one is listed under its resource and its namespace,    *)
(* the namespaces they name exist, and a get finds what a list shows.      *)
(* There are no indexes here: the catalog is the sequence of the manifests *)
(* in the order of the documents.                                          *)
(***************************************************************************)
EXTENDS ResourceTypes, FiniteSets

CONSTANTS
    Resources,      \* the resources clients ask for,
    Namespaces,     \* the namespaces,
    Names,          \* the names,
    Selectors,      \* and the label selectors
    Rank            \* the order of groups, versions and resources as strings

VARIABLES
    entries,    \* the manifests, in the order of the documents
    open,       \* all of them have been read
    answer      \* the answer to the last request

catalogVars == <<entries, open, answer>>

NoAnswer == [request |-> << >>]

\* The namespaces nobody wrote a manifest for, though some manifest is in them.
\* (The manifest of a namespace has "v1" for its apiVersion, not "/v1".)
MissingNamespaces ==
    ({"default"} \cup {entries[i].ns : i \in DOMAIN entries})
        \ ({NoNamespace} \cup
           {entries[i].name : i \in {j \in DOMAIN entries :
                entries[j].apiVersion = <<"v1">> /\ entries[j].kind = "Namespace"}})

\* Everything served, each with the place of its document (0: synthesized).
Served ==
    {[entry |-> entries[i], doc |-> i] : i \in DOMAIN entries}
    \cup {[entry |-> Entry(<<"v1">>, "Namespace", NoNamespace, ns, NoLabels, TRUE),
           doc |-> 0] : ns \in MissingNamespaces}

Listed(gvr, ns, sel) ==
    {s \in Served : /\ s.entry.gvr = gvr
                    /\ ns \in {NoNamespace, s.entry.ns}
                    /\ s.entry.labels \in parseSelector(sel)}

\* The kinds of a resource agree on its scope.  (A kind that is unknown but has
\* the plural of a known one may disagree; nothing is promised then.)
Regular(gvr) ==
    \A s, t \in Served : s.entry.gvr = gvr /\ t.entry.gvr = gvr
                          => s.entry.namespaced = t.entry.namespaced

CatalogInit ==
    /\ entries = << >>
    /\ open = FALSE
    /\ answer = NoAnswer

\* One more manifest.
AddManifest ==
    /\ ~open
    /\ Len(entries') = Len(entries) + 1
    /\ SubSeq(entries', 1, Len(entries)) = entries
    /\ UNCHANGED <<open, answer>>

OpenCatalog ==
    /\ ~open /\ open' = TRUE
    /\ UNCHANGED <<entries, answer>>

\* The list has every match once; those of one namespace keep their order.
AnswerList(gvr, ns, sel) ==
    /\ open /\ answer = NoAnswer
    /\ answer'.request = <<"list", gvr, ns, sel>>
    /\ LET items == answer'.items
           known == {s \in Served : s.entry.gvr = gvr}
       IN  Regular(gvr) =>
           /\ {items[i] : i \in DOMAIN items} = Listed(gvr, ns, sel)
           /\ Len(items) = Cardinality(Listed(gvr, ns, sel))
           /\ \A i, j \in DOMAIN items :
                i < j /\ items[i].entry.ns = items[j].entry.ns
                  => items[i].doc <= items[j].doc
           /\ IF known = {} THEN answer'.kind = "Unknown"
              ELSE \E s \in known : answer'.kind = s.entry.kind
    /\ UNCHANGED <<entries, open>>

\* A get finds a match if there is one: the first of some namespace.
AnswerGet(gvr, ns, name) ==
    /\ open /\ answer = NoAnswer
    /\ answer'.request = <<"get", gvr, ns, name>>
    /\ LET named == {s \in Listed(gvr, ns, "") : s.entry.name = name}
       IN  Regular(gvr) =>
           IF named = {} THEN answer'.items = << >>
           ELSE \E s \in named :
                  /\ answer'.items = <<s>>
                  /\ \A t \in named : t.entry.ns = s.entry.ns => s.doc <= t.doc
    /\ UNCHANGED <<entries, open>>

\* Strictly ascending: sorted, and no value twice.
Ascending(seq, rank(_)) ==
    \A i, j \in DOMAIN seq : i < j => rank(seq[i]) < rank(seq[j])

\* The groups that are served, but the core, with their versions; the first one
\* is preferred.
AllGroups(groups) ==
    LET served == {s.entry.gvr : s \in Served}
    IN  /\ {groups[i].name : i \in DOMAIN groups}
             = {gvr.group : gvr \in served} \ {""}
        /\ Ascending(groups, LAMBDA g : Rank[g.name])
        /\ \A i \in DOMAIN groups :
             LET g == groups[i]
             IN  /\ {g.versions[j] : j \in DOMAIN g.versions}
                      = {gvr.version : gvr \in {h \in served : h.group = g.name}}
                 /\ Ascending(g.versions, LAMBDA v : Rank[v])
                 /\ g.preferred = g.versions[1]

AnswerGroups ==
    /\ open /\ answer = NoAnswer
    /\ answer'.request = <<"groups">>
    /\ AllGroups(answer'.items)
    /\ UNCHANGED <<entries, open>>

\* Every resource of a group and version that is served, with the kind and the
\* scope of one of its manifests, and the /status of the kinds that have one,
\* sorted by name.
Shown(name, e) == [name |-> name, kind |-> e.kind, namespaced |-> e.namespaced]

AllResources(items, group, version) ==
    LET served == {e \in {s.entry : s \in Served} :
                     e.gvr.group = group /\ e.gvr.version = version}
        resources == {e.gvr.resource : e \in served}
    IN  /\ \E face \in [resources -> served] :
             /\ \A r \in resources : face[r].gvr.resource = r
             /\ {items[i] : i \in DOMAIN items} =
                  {Shown(<<r>>, face[r]) : r \in resources}
                  \cup {Shown(<<r, "status">>, face[r]) :
                          r \in {q \in resources : isStatusSubresourceKind(face[q].kind)}}
        /\ Ascending(items, LAMBDA i : 2 * Rank[i.name[1]] + Len(i.name))

AnswerResources(group, version) ==
    /\ open /\ answer = NoAnswer
    /\ answer'.request = <<"resources", group, version>>
    /\ AllResources(answer'.items, group, version)
    /\ UNCHANGED <<entries, open>>

AnswerFixed(path) ==
    /\ open /\ answer = NoAnswer
    /\ answer' = [request |-> <<"fixed", path>>, items |-> FixedAnswers[path]]
    /\ UNCHANGED <<entries, open>>

\* The client has its answer.
Deliver ==
    /\ answer # NoAnswer /\ answer' = NoAnswer
    /\ UNCHANGED <<entries, open>>

CatalogNext ==
    \/ AddManifest \/ OpenCatalog \/ Deliver
    \/ \E gvr \in Resources, ns \in Namespaces :
         \/ \E sel \in Selectors : AnswerList(gvr, ns, sel)
         \/ \E name \in Names : AnswerGet(gvr, ns, name)
    \/ AnswerGroups
    \/ \E gvr \in Resources : AnswerResources(gvr.group, gvr.version)
    \/ \E path \in DOMAIN FixedAnswers : AnswerFixed(path)

CatalogSpec == CatalogInit /\ [][CatalogNext]_catalogVars
=============================================================================
