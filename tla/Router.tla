------------------------------- MODULE Router -------------------------------
(***************************************************************************)
(* Routing of Cold::Net::Http (net/http/Router.h, DispatcherServlet.h,     *)
(* ServletContext.h): two tries of url segments, one for servlets and one  *)
(* for filters, and the dispatch of a request through them.                *)
(*                                                                         *)
(* A url is a sequence of names and marks ("/", "?", "#"), some of them     *)
(* still encoded; a path is the sequence of the names between slashes.     *)
(* The tries are given by what was registered before the server started,   *)
(* in order: pairs of a path and the servlet or filter.                    *)
(***************************************************************************)
EXTENDS Naturals, Sequences, SequencesExt, FiniteSets

CONSTANTS ServletRoutes,  \* AddServlet calls, in order
          FilterRoutes,   \* AddFilter calls, in order
          NoServlet       \* nullptr

Servlets == {ServletRoutes[i][2] : i \in DOMAIN ServletRoutes}
Filters == {FilterRoutes[i][2] : i \in DOMAIN FilterRoutes}

ASSUME RoutesAssumption ==
  /\ {ServletRoutes, FilterRoutes} \subseteq Seq(Seq(STRING) \X STRING)
  /\ NoServlet \notin Servlets /\ Servlets \cap Filters = {}

Wild == "**"
Root == <<"/">>
Index == <<"/", "index.html">>

\* What the encoded names and marks stand for.
UrlDecode(name) ==
  LET plain == [c \in {"%61", "%2F", "%3F"} |-> CASE c = "%61" -> "a" [] c = "%2F" -> "/" [] c = "%3F" -> "?"]
  IN IF name \in DOMAIN plain THEN plain[name] ELSE name

\* The whole url is decoded before it is looked at: an encoded question mark
\* starts the query too, and a fragment is cut off only where there is a query.
DecodeUrl(raw) ==
  LET url == [i \in DOMAIN raw |-> UrlDecode(raw[i])]
      hash == SelectLastInSeq(url, LAMBDA c : c = "#")
      view == IF hash = 0 THEN url ELSE SubSeq(url, 1, hash - 1)
      query == SelectInSeq(view, LAMBDA c : c = "?")
  IN IF query = 0 THEN url ELSE SubSeq(url, 1, query - 1)

\* The elements of s that are in S, in order.
Only(s, S) ==
  LET kept[i \in 0..Len(s)] ==
        IF i = 0 THEN <<>> ELSE IF s[i] \in S THEN Append(kept[i - 1], s[i]) ELSE kept[i - 1]
  IN kept[Len(s)]

\* Empty segments are skipped.
SplitToViews(url) == Only(url, ToSet(url) \ {"/"})

\* The nodes Insert creates: every prefix of a registered path.
Nodes(routes) == {<<>>} \cup UNION {Prefixes(r[1]) : r \in ToSet(routes)}

\* What was inserted at a node, in order.
At(routes, node) == Only(routes, {r \in ToSet(routes) : r[1] = node})

\* param_ of a node: the last servlet inserted there.
Param(node) ==
  LET here == At(ServletRoutes, node) IN IF here = <<>> THEN NoServlet ELSE Last(here)[2]

\* params_ of a node: the filters inserted there, in order.
Params(node) ==
  LET here == At(FilterRoutes, node) IN [i \in DOMAIN here |-> here[i][2]]

\* How many segments of path the walk from the root finds children for.
Depth(routes, path) ==
  CHOOSE n \in 0..Len(path) :
    /\ SubSeq(path, 1, n) \in Nodes(routes)
    /\ n < Len(path) => SubSeq(path, 1, n + 1) \notin Nodes(routes)

\* Where the walk stops short, only a "**" below that very node applies.
TryMatch(path) ==
  LET n == Depth(ServletRoutes, path)
  IN IF n = Len(path) THEN Param(path)
     ELSE Param(Append(SubSeq(path, 1, n), Wild))

\* The filters below "**" of the n-th node on the way.
WildParams(path, n) == Params(Append(SubSeq(path, 1, n), Wild))

\* Those of the first n nodes on the way, then those of the whole path when the
\* walk reaches its end.
Chain(path, n) ==
  LET chain[i \in 0..n] == IF i = 0 THEN <<>> ELSE chain[i - 1] \o WildParams(path, i - 1)
  IN chain[n] \o (IF Depth(FilterRoutes, path) = Len(path) THEN Params(path) ELSE <<>>)

MatchChainLate(path) ==           \* mutant: "**" is looked up after the child was found
  Chain(path, Depth(FilterRoutes, path))
MatchChain(path) ==
  LET n == Depth(FilterRoutes, path) IN Chain(path, IF n = Len(path) THEN n ELSE n + 1)

\* What DoDispathcer does with url when the filters in veto return false: the
\* filters that ran, who handled the request, and whether anybody did.
DoDispathcer(url, veto) ==
  LET path == SplitToViews(url)
      chain == MatchChain(path)
      stop == SelectInSeq(chain, LAMBDA f : f \in veto)
  IN IF stop # 0
     THEN [ran |-> SubSeq(chain, 1, stop), by |-> chain[stop], found |-> TRUE]
     ELSE [ran |-> chain, by |-> TryMatch(path), found |-> TryMatch(path) # NoServlet]

\* ForwardTo: the root is tried again as /index.html, and what nobody handles
\* goes to the default servlet.
ForwardTo(url, veto) ==
  LET first == DoDispathcer(url, veto)
      second == DoDispathcer(Index, veto)
  IN IF first.found \/ url # Root THEN first
     ELSE [second EXCEPT !.ran = first.ran \o @]

\* The filters whose pattern covers path: an exact one, or a "**" strictly below.
Covers(pattern, path) ==
  \/ pattern = path
  \/ /\ pattern # <<>> /\ Last(pattern) = Wild
     /\ Len(path) >= Len(pattern)
     /\ SubSeq(path, 1, Len(pattern) - 1) = Front(pattern)
Covering(path) == {FilterRoutes[i][2] : i \in {j \in DOMAIN FilterRoutes : Covers(FilterRoutes[j][1], path)}}
=============================================================================
