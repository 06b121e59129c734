---------------------------- MODULE MCHttpServer ----------------------------
(* An HTTP server with a servlet of every kind and two filters, and clients  *)
(* that send up to three requests on a connection.                          *)
EXTENDS HttpServer

MCServletRoutes == << <<<<"t">>, "text">>, <<<<"a", "b">>, "empty">>, <<<<"a", "**">>, "files">>,
                      <<<<"r">>, "redirect">>, <<<<"index.html">>, "text">>,
                      <<<<"in">>, "login">>, <<<<"out">>, "logout">> >>
MCFilterRoutes == << <<<<"a", "**">>, "auth">>, <<<<"a", "b">>, "log">> >>

Get(url) == [url |-> url, size |-> 1, headers |-> 0, field |-> 1, value |-> 1,
             connection |-> "none", cookie |-> NoSession, length |-> 0, body |-> 0]
Text == Get(<<"/", "t">>)
File == Get(<<"/", "a", "/", "x.txt">>)
Post == [Text EXCEPT !.headers = 1, !.length = 2, !.body = 2]
In == Get(<<"/", "in">>)
Out == Get(<<"/", "out">>)
Closing == [Get(<<"/", "r">>) EXCEPT !.headers = 1, !.connection = "close"]

\* One request of each kind: to every servlet, at the limits, and past them.
Alone == {Text, File, Post, Closing,
          Get(Root), Get(<<"/", "?", "x.txt", "#", "a">>),
          Get(<<"/", "%61", "/", "b">>), Get(<<"/", "a", "%2F", "b", "/", "x.txt">>),
          Get(<<"/", "t", "%3F", "b">>), Get(<<"/", "a", "/", "x">>), Get(<<"/", "..", "/", "t">>),
          [Text EXCEPT !.headers = 1, !.connection = "Upgrade"],
          [Text EXCEPT !.size = 2], [Text EXCEPT !.size = 3],
          [Text EXCEPT !.headers = 2, !.field = 2, !.value = 2],
          [Text EXCEPT !.headers = 3],
          [Text EXCEPT !.headers = 1, !.field = 3],
          [Text EXCEPT !.headers = 1, !.value = 3], [Text EXCEPT !.headers = 1, !.value = 0],
          [Post EXCEPT !.length = 3, !.body = 3],
          [Post EXCEPT !.length = 0 - 1]}

MCStreams == {<<r>> : r \in Alone}
             \cup {<<p, r>> : p \in {Text, File, Post}, r \in Alone}
             \cup {<<Text, File, Closing>>, <<Text, Text, Text>>}
             \cup {<<In, r>> : r \in {[In EXCEPT !.cookie = 1], [Out EXCEPT !.cookie = 1], In}}
             \cup {<<In, [Out EXCEPT !.cookie = 1], [In EXCEPT !.cookie = 1]>>}
=============================================================================
