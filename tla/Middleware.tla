----------------------------- MODULE Middleware -----------------------------
(***************************************************************************)
(* What becomes of a request in the chain server.New builds: the response  *)
(* the client gets and the line in the log.  internal/server/middleware.go *)
(* around the helpers of handlers.go and api.go that write a response.     *)
(*                                                                         *)
(* A helper takes what was written so far to what is written then.         *)
(* Rendering a template and encoding JSON may fail, after some output or   *)
(* before any: such a helper gives the set of responses it may leave.      *)
(***************************************************************************)
EXTENDS Naturals, Sequences

NoStatus == 0

\* sent is the status on the wire, status the one the statusWriter keeps for
\* the log, body what was written, in parts.
Blank == [sent |-> NoStatus, status |-> 200, body |-> <<>>, panicked |-> FALSE,
          logged |-> FALSE]

\* Faulty variant: the status is kept and not passed on.
WriteHeaderKept(w, code) == [w EXCEPT !.status = code]

\* statusWriter.WriteHeader; net/http sends the first status and drops others.
WriteHeader(w, code) ==
    [w EXCEPT !.status = code, !.sent = IF @ = NoStatus THEN code ELSE @]

\* Write is not overridden: the status 200 it implies bypasses the statusWriter.
Write(w, part) ==
    [w EXCEPT !.sent = IF @ = NoStatus THEN 200 ELSE @, !.body = Append(@, part)]

HttpError(w, msg, code) == Write(WriteHeader(w, code), msg)

\* The connection is taken over: 101 is written past the statusWriter.
Hijack(w) == [w EXCEPT !.sent = 101]

\* A template that is executed to its end, and one that is not.
Rendered(w)   == Write(w, "whole")
Unrendered(w) == {w, Write(w, "part")}

renderPage(w) == {Rendered(w)} \cup Unrendered(w)

renderPartial(w) ==
    {Rendered(w)} \cup {HttpError(u, "RenderError", 500) : u \in Unrendered(w)}

renderError(w, msg, code) ==
    LET v == WriteHeader(w, code)
    IN  {Rendered(v)} \cup {HttpError(u, msg, code) : u \in Unrendered(v)}

\* Encode hands its output over in one piece, or fails before.
writeJSON(w, code) == LET v == WriteHeader(w, code) IN {v, Rendered(v)}

Panic(w) == [w EXCEPT !.panicked = TRUE]

-----------------------------------------------------------------------------
recoveryMiddleware(w) ==
    IF w.panicked THEN HttpError(w, "InternalServerError", 500) ELSE w

loggingMiddleware(w) == [w EXCEPT !.logged = TRUE]

\* net/http ends a response nothing was written to.
Finish(w) == IF w.sent = NoStatus THEN [w EXCEPT !.sent = 200] ELSE w

Unauthorized == HttpError(Blank, "Unauthorized", 401)

\* Faulty variant: the logging is inside the recovery, and a panic passes it.
chainSwapped(authorized, responses) ==
    IF ~authorized THEN {Unauthorized}
    ELSE {Finish(recoveryMiddleware(
            IF w.panicked THEN w ELSE loggingMiddleware(w))) : w \in responses}

\* Authentication around logging around recovery.
chain(authorized, responses) ==
    IF ~authorized THEN {Unauthorized}
    ELSE {Finish(loggingMiddleware(recoveryMiddleware(w))) : w \in responses}
=============================================================================
