----------------------------- MODULE HttpServer -----------------------------
(***************************************************************************)
(* One connection of Cold::Net::Http::HttpServer: DoHttp, the request      *)
(* parser, the dispatch to filters and servlets, and the response          *)
(* (net/http/HttpServer, HttpRequestParser, HttpRequest, HttpResponse,     *)
(* StaticFileBody, with module Router).                                    *)
(*                                                                         *)
(* The client sends a stream of requests; a request is a sequence of       *)
(* tokens, the units a read can split it into, each standing for one call  *)
(* of llhttp into the parser.  Sizes are numbers of tokens.  A read hands  *)
(* any number of tokens to the parser.  What a servlet does is its kind:   *)
(* a user's servlet sets a text body, leaves the response alone, redirects *)
(* or answers with a file.  TcpServer runs every connection on the thread  *)
(* of its main service, so dispatching is one step.                        *)
(***************************************************************************)
EXTENDS Router, Integers

CONSTANTS Streams,         \* the streams of requests clients may send
          MaxUrlSize, MaxHeaderCount, MaxHeaderFieldSize, MaxHeaderValueSize,
          MaxBodySize,     \* limits of the configuration
          BarePages,       \* statuses whose error page handler sets no body
          Suffixed,        \* the names that contain a dot
          FileSizes,       \* lengths of the files under the document root
          MaxRead          \* bound on the tokens of one read

VARIABLES pc,        \* where DoHttp is
          stream,    \* what the client sends on this connection
          at,        \* the last token of it that was read
          joined,    \* some read ended a request and began the next
          parser,    \* HttpRequestParser
          taken,     \* requests taken from it
          resp,      \* HttpResponse, with the dispatch that made it
          left,      \* units of the body still to be sent
          file,      \* units of the open file that have not been sent
          sessions,  \* sessions_ of the HttpSessionManager, by the request that made each
          peer,      \* the client reads, has stopped reading, or is gone
          wire       \* the responses written: their heads, with how much body followed

vars == <<pc, stream, at, joined, parser, taken, resp, left, file, sessions, peer, wire>>

Statuses == {"OK", "FOUND", "BAD_REQUEST", "NOT_FOUND", "INTERNAL_SERVER_ERROR"}
Unframed == 0 - 1      \* no Content-Length header
Bad == 0               \* stands for the request a 400 answers
NoSession == 0

\* Error pages exist for error statuses only.
ASSUME PagesAssumption == BarePages \subseteq Statuses \ {"OK"}
ASSUME LimitsAssumption ==
  {MaxUrlSize, MaxHeaderCount, MaxHeaderFieldSize, MaxHeaderValueSize, MaxBodySize, MaxRead}
    \cup FileSizes \subseteq Nat

-----------------------------------------------------------------------------
(* Requests: the raw url and its size, the number of headers and the sizes *)
(* of their names and values, the Connection header, the SessionId cookie  *)
(* (the request whose response set it, or NoSession), the Content-Length   *)
(* announced and the size of the body.  Requests are HTTP/1.1.             *)

Requests ==
  [url : Seq(STRING), size : Nat \ {0}, headers : Nat, field : Nat \ {0}, value : Nat,
   connection : STRING, cookie : Nat, length : Int, body : Nat]

ASSUME StreamsAssumption == Streams \subseteq Seq(Requests)

\* A token is the n-th of its kind in the request, or in the header: headers is
\* the number of those begun.
NoToken == [req |-> 0, token |-> "none", n |-> 0, headers |-> 0]

IsLast(t) ==
  \/ t.token = "none"
  \/ t.token = "end" /\ stream[t.req].body = 0
  \/ t.token = "body" /\ t.n = stream[t.req].body

\* The token that follows t in the stream.
Following(t) ==
  LET r == stream[t.req]
      Of(kind) == [t EXCEPT !.token = kind, !.n = IF t.token = kind THEN @ + 1 ELSE 1]
  IN IF IsLast(t) THEN [req |-> t.req + 1, token |-> "url", n |-> 1, headers |-> 0]
     ELSE CASE t.token = "url" -> Of(IF t.n < r.size THEN "url" ELSE "version")
            [] t.token \in {"version", "eol"} ->
                 IF t.headers < r.headers THEN [Of("field") EXCEPT !.headers = @ + 1] ELSE Of("end")
            [] t.token = "field" -> Of(IF t.n < r.field THEN "field" ELSE IF r.value > 0 THEN "value" ELSE "eol")
            [] t.token = "value" -> Of(IF t.n < r.value THEN "value" ELSE "eol")
            [] t.token \in {"end", "body"} -> Of("body")

NoMore(t) == IsLast(t) /\ t.req = Len(stream)

Dots(url) == ".." \in ToSet(url)
Path(i) == SplitToViews(DecodeUrl(stream[i].url))

\* What the limits allow, said of a whole request.
Legal(r) ==
  /\ r.size <= MaxUrlSize /\ ~Dots(r.url)
  /\ r.headers > 0 => r.field <= MaxHeaderFieldSize /\ r.value <= MaxHeaderValueSize
  /\ r.headers <= MaxHeaderCount
  /\ r.body > 0 => r.length \in 0..MaxBodySize

-----------------------------------------------------------------------------
(* HttpRequestParser: the callbacks llhttp makes while it executes a read.  *)
(* buf and val are the sizes of buf_ and bufForHeaderValue_.               *)

NewParser == [buf |-> 0, val |-> 0, headers |-> 0, check |-> TRUE, queue |-> <<>>, bad |-> FALSE]
Reject(p) == [p EXCEPT !.bad = TRUE]

OnUrlChunk(p) ==                 \* mutant: the size of what came before is forgotten
  IF 1 > MaxUrlSize THEN Reject(p) ELSE [p EXCEPT !.buf = @ + 1]
OnUrl(p) == IF p.buf + 1 > MaxUrlSize THEN Reject(p) ELSE [p EXCEPT !.buf = @ + 1]

\* OnUrlComplete, OnVersion, OnVersionComplete.
OnVersion(p, r) == IF Dots(r.url) THEN Reject(p) ELSE [p EXCEPT !.buf = 0]

OnHeaderField(p) ==
  IF p.headers + 1 > MaxHeaderCount \/ p.buf + 1 > MaxHeaderFieldSize
  THEN Reject(p) ELSE [p EXCEPT !.buf = @ + 1]

OnHeaderValue(p) ==
  IF p.val + 1 > MaxHeaderValueSize THEN Reject(p) ELSE [p EXCEPT !.val = @ + 1]

OnHeaderValueComplete(p) == [p EXCEPT !.headers = @ + 1, !.buf = 0, !.val = 0]

\* The announced length is looked at with the first piece of the body.
OnBody(p, r) ==
  IF p.check /\ r.length \notin 0..MaxBodySize
  THEN Reject(p) ELSE [p EXCEPT !.check = FALSE, !.buf = @ + 1]

OnMessageComplete(p, i) ==
  [p EXCEPT !.queue = Append(@, i), !.buf = 0, !.headers = 0, !.check = TRUE]

Callback(p, t) ==
  CASE t.token = "url" -> OnUrl(p)
    [] t.token = "version" -> OnVersion(p, stream[t.req])
    [] t.token = "field" -> OnHeaderField(p)
    [] t.token = "value" -> OnHeaderValue(p)
    [] t.token = "eol" -> OnHeaderValueComplete(p)
    [] t.token = "end" -> p
    [] t.token = "body" -> OnBody(p, stream[t.req])

\* llhttp stops at the first callback that returns an error.
Execute(p, t) ==
  IF p.bad THEN p
  ELSE LET q == Callback(p, t)
       IN IF q.bad \/ ~IsLast(t) THEN q ELSE OnMessageComplete(q, t.req)

\* The next token of a read: the read joins two requests when another token of
\* it ended one.
Feed(s, first) ==
  IF NoMore(s.at) THEN s
  ELSE [at |-> Following(s.at), parser |-> Execute(s.parser, Following(s.at)),
        joined |-> s.joined \/ (~first /\ IsLast(s.at))]

\* k tokens, or what is left of the stream.
Parse(k) ==
  LET after[j \in 0..k] ==
        IF j = 0 THEN [at |-> at, parser |-> parser, joined |-> joined] ELSE Feed(after[j - 1], j = 1)
  IN after[k]

TakeRequest(q) == [q EXCEPT !.queue = Tail(@)]

-----------------------------------------------------------------------------
(* HttpResponse.  body is none, text, file, or failed: a StaticFileBody    *)
(* without a descriptor; size is that of the body, length the header.      *)

Fresh(i) == [of |-> i, status |-> "OK", body |-> "none", size |-> 0, length |-> Unframed,
             keep |-> TRUE, by |-> NoServlet, ran |-> {}, session |-> NoSession, setCookie |-> NoSession]

\* SetBody stores a body and calls its SetRelatedHeaders, which announces a text.
SetBody(r, kind, n) == [r EXCEPT !.body = kind, !.size = n, !.length = n]

SetTextBody(r) == SetBody(r, "text", 1)

SendRedirect(r) == [r EXCEPT !.status = "FOUND"]

\* The constructor of StaticFileBody: the file is not there, its size or the
\* file itself cannot be had, or it is open with n units.
OpenFileUnchecked(r) ==          \* mutant: the result of open is not looked at
  {[r EXCEPT !.status = s, !.body = "failed"] : s \in {"OK", "NOT_FOUND"}}
    \cup {[r EXCEPT !.body = "file", !.size = n] : n \in FileSizes}
OpenFile(r) ==
  {[r EXCEPT !.status = s, !.body = "failed"] : s \in {"NOT_FOUND", "INTERNAL_SERVER_ERROR"}}
    \cup {[r EXCEPT !.body = "file", !.size = n] : n \in FileSizes}

\* StaticFileBody::SetRelatedHeaders returns at once when there is no descriptor.
\* It announces the length of an open file, and then looks for a suffix in the
\* path: substr throws if there is none.
SetRelatedHeaders(r) == IF r.body = "failed" THEN r ELSE [r EXCEPT !.length = r.size]
HasSuffix(url) == url = Root \/ \E name \in ToSet(url) : name \in Suffixed

\* The exception ends DoHttp through unhandled_exception (coro/Task.h:23), whose
\* assertion stops the process; with NDEBUG only the connection ends.
StaticFileServlet(r) ==
  \E f \in OpenFile(r) :
    /\ resp' = SetRelatedHeaders(f)
    /\ pc' = IF f.body = "failed" \/ HasSuffix(DecodeUrl(stream[r.of].url)) THEN "page" ELSE "aborted"

\* HttpRequest::GetSession: the session the cookie names if the manager still
\* has it, and else a new one, whose identifier the response sets.
HasSession(c) == c \in sessions
CreateNewSession(r) == [r EXCEPT !.session = r.of, !.setCookie = r.of]
GetSession(r) ==
  IF HasSession(stream[r.of].cookie)
  THEN [r EXCEPT !.session = stream[r.of].cookie] ELSE CreateNewSession(r)

\* A servlet that asks for the session and answers with a text, and one that
\* invalidates it as well.
Login(r) ==
  /\ resp' = SetTextBody(GetSession(r)) /\ pc' = "page"
  /\ sessions' = sessions \cup {GetSession(r).session}
Logout(r) ==
  /\ resp' = SetTextBody(GetSession(r)) /\ pc' = "page"
  /\ sessions' = sessions \ {GetSession(r).session}

\* Handle of the servlet that was found, or what a filter that returned false
\* left behind.
Handle(r) ==
  \/ r.by = "login" /\ Login(r)
  \/ r.by = "logout" /\ Logout(r)
  \/ /\ \/ r.by = NoServlet /\ pc' = "page" /\ resp' = [r EXCEPT !.status = "NOT_FOUND"]
        \/ r.by = "text" /\ pc' = "page" /\ resp' = SetTextBody(r)
        \/ r.by = "redirect" /\ pc' = "page" /\ resp' = SendRedirect(r)
        \/ r.by = "files" /\ StaticFileServlet(r)
        \/ /\ r.by \notin {NoServlet, "text", "redirect", "files", "login", "logout"}
           /\ pc' = "page" /\ resp' = r
     /\ UNCHANGED sessions

IsKeepAlive(r) == r.connection \in {"none", "keep-alive"}

\* The request becomes a response: HttpRequest, SetCloseConnection, ForwardTo.
Serve(i) ==
  \E veto \in SUBSET Filters :
    LET d == ForwardTo(DecodeUrl(stream[i].url), veto)
    IN Handle([Fresh(i) EXCEPT !.keep = IsKeepAlive(stream[i]), !.by = d.by, !.ran = ToSet(d.ran)])

\* An error status gets its page: the default handler sets a text body, one of
\* the user's may not.
ErrorPage(r) ==
  IF r.status = "OK" \/ r.status \in BarePages THEN r ELSE SetTextBody(r)

-----------------------------------------------------------------------------
(* DoHttp.                                                                 *)

Init ==
  /\ pc = "read"
  /\ stream \in Streams
  /\ at = NoToken /\ joined = FALSE
  /\ parser = NewParser
  /\ taken = 0
  /\ resp = Fresh(Bad)
  /\ left = 0 /\ file = 0 /\ sessions = {}
  /\ peer = "reads"
  /\ wire = <<>>

Close == pc' = "closed"

HasRequestBefore(q) == parser.queue # <<>>   \* mutant: looked at before Parse
HasRequest(q) == q.queue # <<>>

\* A server with a WebSocketServer gives it the connection (module WebSocket).
CheckWhetherUpgradeRequest(r) == r.connection = "Upgrade"

\* The client has the cookies of the requests up to i.
HasCookies(i) ==
  {stream[j].cookie : j \in 1..i} \subseteq {NoSession} \cup {wire[j].setCookie : j \in DOMAIN wire}

\* A read hands k tokens to the parser; one request is taken.
Read(k) ==
  /\ pc = "read" /\ ~NoMore(at)
  /\ at' = Parse(k).at /\ HasCookies(at'.req)
  /\ joined' = Parse(k).joined
  /\ LET q == Parse(k).parser IN
     \/ /\ q.bad
        /\ resp' = [Fresh(Bad) EXCEPT !.status = "BAD_REQUEST", !.keep = FALSE]
        /\ parser' = q /\ pc' = "page"
        /\ UNCHANGED <<taken, sessions>>
     \/ /\ ~q.bad /\ HasRequest(q)
        /\ taken' = taken + 1
        /\ parser' = TakeRequest(q)
        /\ LET i == Head(q.queue) IN
           \/ /\ CheckWhetherUpgradeRequest(stream[i])
              /\ pc' = "upgraded" /\ UNCHANGED <<resp, sessions>>
           \/ /\ ~CheckWhetherUpgradeRequest(stream[i])
              /\ Serve(i)
     \/ /\ ~q.bad /\ ~HasRequest(q)
        /\ parser' = q
        /\ UNCHANGED <<pc, taken, resp, sessions>>
  /\ UNCHANGED <<stream, left, file, peer, wire>>

\* The peer closed its side, or nothing came for the read timeout.
ReadEnds ==
  /\ pc = "read" /\ Close
  /\ UNCHANGED <<stream, at, joined, parser, taken, resp, left, file, peer, wire, sessions>>

\* The error page and MakeHeaders, up to the write of the headers.
MakeHeaders ==
  /\ pc = "page"
  /\ resp' = ErrorPage(resp)
  /\ pc' = "header"
  /\ UNCHANGED <<stream, at, joined, parser, taken, left, file, peer, wire, sessions>>

\* What SendBody has to send; the assertions of StaticFileBody::Send stop the
\* process.
SendBody(r) ==
  CASE r.body = "none" -> "sent"
    [] r.body = "failed" \/ (r.body = "file" /\ r.status # "OK") -> "aborted"
    [] OTHER -> r.body

WriteHeader ==
  /\ pc = "header" /\ peer = "reads"
  /\ wire' = Append(wire, [of |-> resp.of, status |-> resp.status, length |-> resp.length, sent |-> 0,
                          session |-> resp.session, setCookie |-> resp.setCookie])
  /\ pc' = SendBody(resp)
  /\ left' = resp.size /\ file' = resp.size
  /\ UNCHANGED <<stream, at, joined, parser, taken, resp, peer, sessions>>

\* Headers and files are written under a timeout, a text body is not.
TimedOutNever(p) == FALSE        \* mutant: no timeout on any write
TimedOut(p) == p \in {"header", "file"} /\ peer = "stalled"

\* sendfile returns 0 at the end of a file that has become shorter, and Send
\* calls it again.
Spinning == pc = "file" /\ file = 0 /\ left > 0

WriteFails ==
  /\ pc \in {"header", "text", "file"} /\ ~Spinning
  /\ peer = "gone" \/ TimedOut(pc)
  /\ Close
  /\ UNCHANGED <<stream, at, joined, parser, taken, resp, left, file, peer, wire, sessions>>

\* A write of the text takes n more units.
WriteText(n) ==
  /\ pc = "text" /\ peer = "reads"
  /\ n <= left
  /\ left' = left - n
  /\ wire' = [wire EXCEPT ![Len(wire)].sent = @ + n]
  /\ UNCHANGED <<pc, stream, at, joined, parser, taken, resp, file, peer, sessions>>

\* A sendfile takes n more units of the file: at once, or after it waited for
\* room in the socket's buffer.
SendFile(n) ==
  /\ pc = "file" /\ peer = "reads"
  /\ n <= left /\ n <= file
  /\ left' = left - n /\ file' = file - n
  /\ wire' = [wire EXCEPT ![Len(wire)].sent = @ + n]
  /\ UNCHANGED <<pc, stream, at, joined, parser, taken, resp, peer, sessions>>

\* The loops of WriteN and of StaticFileBody::Send end when all is sent.
FinishBody ==
  /\ pc \in {"text", "file"} /\ left = 0
  /\ pc' = "sent"
  /\ UNCHANGED <<stream, at, joined, parser, taken, resp, left, file, peer, wire, sessions>>

KeepAliveOrClose ==
  /\ pc = "sent"
  /\ pc' = IF resp.keep THEN "read" ELSE "closed"
  /\ UNCHANGED <<stream, at, joined, parser, taken, resp, left, file, peer, wire, sessions>>

-----------------------------------------------------------------------------
(* The client and the file system.                                         *)

PeerChanges ==
  /\ \/ peer = "reads" /\ peer' \in {"stalled", "gone"}
     \/ peer = "stalled" /\ peer' \in {"reads", "gone"}
  /\ UNCHANGED <<pc, stream, at, joined, parser, taken, resp, left, file, wire, sessions>>

\* Somebody truncates the file that is being sent.
Truncate ==
  /\ pc = "file" /\ file > 0 /\ file' = 0
  /\ UNCHANGED <<pc, stream, at, joined, parser, taken, resp, left, peer, wire, sessions>>

\* A request on another connection invalidates a session.
Invalidate ==
  /\ \E s \in sessions : sessions' = sessions \ {s}
  /\ UNCHANGED <<pc, stream, at, joined, parser, taken, resp, left, file, peer, wire>>

Done == (pc \in {"closed", "upgraded", "aborted"} \/ Spinning) /\ UNCHANGED vars

Send == WriteHeader \/ (\E n \in 1..MaxRead : WriteText(n) \/ SendFile(n)) \/ FinishBody

Next ==
  \/ \E k \in 1..MaxRead : Read(k)
  \/ ReadEnds \/ MakeHeaders \/ WriteFails \/ Send \/ KeepAliveOrClose
  \/ PeerChanges \/ Truncate \/ Invalidate \/ Done

\* The coroutine is resumed when its socket allows, and by its timers; room in
\* the socket's buffer stays until it is written to, so that a client that
\* reads again and again is served (strong fairness).
Fairness ==
  /\ WF_vars(MakeHeaders) /\ WF_vars(WriteFails) /\ SF_vars(Send)
  /\ WF_vars(KeepAliveOrClose) /\ WF_vars(ReadEnds)

Spec == Init /\ [][Next]_vars /\ Fairness

-----------------------------------------------------------------------------
(* Properties.                                                             *)

\* The body of a response is what its Content-Length announces before the next
\* response is written or the next request is read.
WellFramed ==
  \A i \in DOMAIN wire :
    i < Len(wire) \/ pc = "read" => wire[i].sent = IF wire[i].length = Unframed THEN 0 ELSE wire[i].length

\* A request that names a session nobody invalidated is served with it; every
\* other one that asks for a session gets one of its own.
SessionsKept ==
  \A i \in DOMAIN wire : LET c == stream[i].cookie IN
    wire[i].session # NoSession /\ wire[i].setCookie # NoSession =>
      c \notin sessions /\ \A j \in 1..(i - 1) : wire[j].session # wire[i].session

\* Responses come in the order of the requests, one for each, well framed, and
\* only for requests within the limits, however the reads cut the stream; a 400
\* is the last response, and something that was sent is not within the limits.
AnswersMatchRequests ==
  /\ WellFramed /\ SessionsKept
  /\ \A i \in DOMAIN wire :
       IF wire[i].of = Bad
       THEN /\ i = Len(wire) /\ pc # "read"
            /\ \E j \in DOMAIN stream : j >= i /\ ~Legal(stream[j])
       ELSE wire[i].of = i /\ Legal(stream[i])

\* Unless a read ended one request and began the next, nothing waits in the
\* parser while DoHttp waits for input, and a 400 stands for the very request
\* it answers.
PromptUnlessJoined ==
  joined \/ /\ pc = "read" => parser.queue = <<>>
            /\ \A i \in DOMAIN wire : wire[i].of = Bad => ~Legal(stream[i])

\* A servlet handles a request only after every filter that covers its url ran.
NoFilterBypassed ==
  resp.by \in Servlets => Covering(Path(resp.of)) \subseteq resp.ran

\* The process is stopped by a response only where an error page handler of the
\* user left the body of a file that could not be opened, or where an open file
\* has a path without a suffix; a missing file, whatever its name, is answered.
AbortsExplained ==
  pc = "aborted" => \/ resp.status \in BarePages /\ resp.body = "failed"
                    \/ /\ resp.by = "files" /\ resp.body = "file"
                       /\ DecodeUrl(stream[resp.of].url) # Root /\ ToSet(Path(resp.of)) \cap Suffixed = {}

\* A response is finished or given up, whatever the client does, unless the file
\* it sends was truncated, or a text body meets a client that does not read.
Sending == {"page", "header", "text", "file", "sent"}
ResponseEnds ==
  pc \in Sending ~> pc \notin Sending \/ Spinning \/ (pc = "text" /\ peer = "stalled")
=============================================================================
