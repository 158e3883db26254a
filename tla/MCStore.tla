------------------------------ MODULE MCStore -------------------------------
(***************************************************************************)
(* Streams of up to three documents for ManifestStore: two kinds of the    *)
(* table with different scopes, namespaces with manifests and without, a   *)
(* kind the table does not know, and documents that are not objects.       *)
(***************************************************************************)
EXTENDS ManifestStore

MCKnownTypes ==
    [gvk \in {NamespaceGVK, [group |-> "", version |-> "v1", kind |-> "Node"],
              [group |-> "", version |-> "v1", kind |-> "Pod"]} |->
       CASE gvk.kind = "Namespace" -> [plural |-> "namespaces", namespaced |-> FALSE]
         [] gvk.kind = "Node"      -> [plural |-> "nodes", namespaced |-> FALSE]
         [] gvk.kind = "Pod"       -> [plural |-> "pods", namespaced |-> TRUE]]

\* Words whose plurals do not just end in s, one of them that of a known kind.
MCSpelled == [k \in {"Widget", "node", "Pod", "Proxy"} |->
                CASE k = "Widget" -> [stem |-> "widget", ending |-> ""]
                  [] k = "node"   -> [stem |-> "node", ending |-> ""]
                  [] k = "Pod"    -> [stem |-> "pod", ending |-> ""]
                  [] k = "Proxy"  -> [stem |-> "prox", ending |-> "y"]]

\* Strings in their order.
InOrder == <<"", "acme.io", "beta.io", "namespaces", "nodes", "pods", "proxies", "v1", "v2", "widgets">>
MCRank == [s \in {InOrder[i] : i \in DOMAIN InOrder} |->
             CHOOSE i \in DOMAIN InOrder : InOrder[i] = s]

MCLabels == {NoLabels, {"app=web"}}
MCMatches == [sel \in {"app=web"} |-> {{"app=web"}}]

Core(resource) == [group |-> "", version |-> "v1", resource |-> resource]
MCResources == {NamespaceGVR, Core("pods"), Core("nodes"),
                [group |-> "acme.io", version |-> "v1", resource |-> "widgets"],
                [group |-> "acme.io", version |-> "v2", resource |-> "proxies"]}
MCNamespaces == {NoNamespace, "default", "prod"}
MCNames == {"a", "prod"}
MCSelectors == {"", "app=web", "app=in("}

Doc(apiVersion, kind, ns, name, labels) ==
    [form |-> "object", apiVersion |-> apiVersion, kind |-> kind,
     metadata |-> "map", ns |-> ns, name |-> name, labels |-> labels]

WellFormed == {
    Doc(<<"v1">>, "Pod", "", "a", {"app=web"}),
    Doc(<<"v1">>, "Pod", "prod", "a", NoLabels),
    Doc(<<"v1">>, "Pod", "default", "a", NoLabels),
    Doc(<<"v1">>, "Node", "prod", "a", NoLabels),
    Doc(<<"acme.io", "v1">>, "Widget", "prod", "a", {"app=web"}),
    Doc(<<"v1">>, "Namespace", "", "prod", NoLabels)}

\* No metadata, or none that can be set, a second version of a group and a second
\* group, an unknown kind with the plural of a known one, a core version that no
\* path leads to, a namespace that does not count as one, and documents that are
\* not objects.
Odd == {
    [Doc(<<"v1">>, "Pod", "", "", NoLabels) EXCEPT !.metadata = "absent"],
    [Doc(<<"v1">>, "Pod", "", "", NoLabels) EXCEPT !.metadata = "null"],
    Doc(<<"acme.io", "v2">>, "Proxy", "", "a", NoLabels),
    Doc(<<"beta.io", "v1">>, "Proxy", "prod", "a", NoLabels),
    Doc(<<"v1">>, "node", "", "a", NoLabels),
    Doc(<<"v2">>, "Pod", "", "a", NoLabels),
    Doc(<<"", "v1">>, "Namespace", "", "prod", NoLabels),
    [Doc(<<"v1">>, "Pod", "", "", NoLabels) EXCEPT !.form = "incomplete"],
    [Doc(<<"v1">>, "Pod", "", "", NoLabels) EXCEPT !.form = "unreadable"]}

MCStreams == BoundedSeq(WellFormed \cup Odd, 3)

\* resources.go: "For cluster-scoped resources, namespace is ignored."  A list
\* that names a namespace finds nothing of a cluster-scoped resource.
ClusterListIgnoresNamespace ==
    (phase = "serve" /\ response # NoResponse /\ response.request[1] = "list"
       /\ response.request[2] \in DOMAIN typeInfo
       /\ ~typeInfo[response.request[2]].namespaced) =>
        response.items \in List(response.request[2], NoNamespace,
                                response.request[4])
=============================================================================
