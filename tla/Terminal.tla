------------------------------ MODULE Terminal ------------------------------
(***************************************************************************)
(* One terminal session: handleTerminalWS of internal/server/terminal.go   *)
(* with its two pumps, between a shell in a container and a browser.       *)
(* Sessions share nothing, so one is enough.                               *)
(*                                                                         *)
(* What the shell prints and what the user types are counted in chunks.    *)
(* The hijacked connection to Docker and the WebSocket deliver in order.   *)
(***************************************************************************)
EXTENDS Naturals

CONSTANTS
    MaxOutput,      \* bound on what the shell prints
    MaxInput        \* bound on what the browser sends

ASSUME TerminalAssumption ==
    /\ MaxOutput \in Nat
    /\ MaxInput \in Nat

VARIABLES
    pc,         \* where handleTerminalWS is
    exec,       \* the exec instance in Docker
    execOpen,   \* attachResp: the hijacked connection is not closed here
    wsOpen,     \* ws is not closed here
    browser,    \* the browser's end: "waiting", "open" or "closed"
    out,        \* the goroutine exec stdout -> WebSocket
    inp,        \* the goroutine WebSocket -> exec stdin
    printed,    \* chunks the shell has printed
    taken,      \* of those, chunks the stdout goroutine has read
    shown,      \* of those, chunks that reached the browser
    sent,       \* messages the browser has sent
    received,   \* of those, messages the stdin goroutine has read
    failed      \* a connection has failed with an error other than its end

execVars    == <<exec, execOpen>>
wsVars      == <<wsOpen, browser>>
outputVars  == <<printed, taken, shown>>
inputVars   == <<sent, received>>
terminalVars == <<pc, execVars, wsVars, out, inp, outputVars, inputVars, failed>>

HandlerState == {"inspect", "create", "attach", "upgrade", "wait", "over", "refused"}

TypeOK ==
    /\ pc \in HandlerState
    /\ exec \in {"none", "created", "running", "exited"}
    /\ execOpen \in BOOLEAN
    /\ wsOpen \in BOOLEAN
    /\ browser \in {"waiting", "open", "closed"}
    /\ out \in {"off", "read", "write", "gone"}
    /\ inp \in {"off", "read", "write", "resize", "gone"}
    /\ printed \in 0..MaxOutput
    /\ taken \in 0..printed
    /\ shown \in 0..taken
    /\ sent \in 0..MaxInput
    /\ received \in 0..sent
    /\ failed \in BOOLEAN

\* A request that names a container.
Init ==
    /\ pc = "inspect"
    /\ exec = "none"
    /\ execOpen = FALSE
    /\ wsOpen = FALSE
    /\ browser = "waiting"
    /\ out = "off"
    /\ inp = "off"
    /\ printed = 0
    /\ taken = 0
    /\ shown = 0
    /\ sent = 0
    /\ received = 0
    /\ failed = FALSE

Goto(from, to) ==
    /\ pc = from
    /\ pc' = to

-----------------------------------------------------------------------------
(* Setting up. *)

\* Docker knows the container, and it is running.
Inspect ==
    /\ Goto("inspect", "create")
    /\ UNCHANGED <<execVars, wsVars, out, inp, outputVars, inputVars, failed>>

CreateExec ==
    /\ Goto("create", "attach")
    /\ exec' = "created"
    /\ UNCHANGED <<execOpen, wsVars, out, inp, outputVars, inputVars, failed>>

\* Attaching starts the shell.
AttachExec ==
    /\ Goto("attach", "upgrade")
    /\ exec' = "running"
    /\ execOpen' = TRUE
    /\ UNCHANGED <<wsVars, out, inp, outputVars, inputVars, failed>>

\* Unknown or stopped container, or Docker refuses to create or to attach; an
\* exec instance that was created stays behind in Docker, never started.
Refuse ==
    /\ \E from \in {"inspect", "create", "attach"} : Goto(from, "refused")
    /\ browser' = "closed"
    /\ UNCHANGED <<execVars, wsOpen, out, inp, outputVars, inputVars, failed>>

Upgrade ==
    /\ Goto("upgrade", "wait")
    /\ wsOpen' = TRUE
    /\ browser' = IF browser = "waiting" THEN "open" ELSE browser
    /\ out' = "read"
    /\ inp' = "read"
    /\ UNCHANGED <<execVars, outputVars, inputVars, failed>>

\* Faulty variant: the connection to the shell is not closed.
UpgradeFailsLeaving ==
    /\ Goto("upgrade", "refused")
    /\ browser' = "closed"
    /\ UNCHANGED <<execVars, wsOpen, out, inp, outputVars, inputVars, failed>>

UpgradeFails ==
    /\ Goto("upgrade", "refused")
    /\ execOpen' = FALSE
    /\ browser' = "closed"
    /\ UNCHANGED <<exec, wsOpen, out, inp, outputVars, inputVars, failed>>

-----------------------------------------------------------------------------
(* exec stdout -> WebSocket. *)

\* Faulty variant: a read that brings no bytes is forwarded too.
ReadOutputEmpty ==
    /\ out = "read"
    /\ taken <= printed
    /\ taken' = taken + 1
    /\ out' = "write"
    /\ UNCHANGED <<pc, execVars, wsVars, inp, printed, shown, inputVars, failed>>

\* Faulty variant: the error is looked at before the bytes that came with it.
ReadOutputErrorFirst ==
    /\ out = "read"
    /\ taken < printed
    /\ taken' = taken + 1
    /\ out' = IF exec = "exited" /\ taken' = printed THEN "gone" ELSE "write"
    /\ UNCHANGED <<pc, execVars, wsVars, inp, printed, shown, inputVars, failed>>

ReadOutput ==
    /\ out = "read"
    /\ taken < printed
    /\ taken' = taken + 1
    /\ out' = "write"
    /\ UNCHANGED <<pc, execVars, wsVars, inp, printed, shown, inputVars, failed>>

\* Faulty variant: io.EOF is taken for no error, and reading goes on.
ReadEOFRetries ==
    /\ out = "read"
    /\ exec = "exited"
    /\ taken = printed
    /\ UNCHANGED terminalVars

\* io.EOF: the shell has ended and all it printed was read.
ReadEOF ==
    /\ out = "read"
    /\ exec = "exited"
    /\ taken = printed
    /\ out' = "gone"
    /\ UNCHANGED <<pc, execVars, wsVars, inp, outputVars, inputVars, failed>>

ReadOutputFails ==
    /\ out = "read"
    /\ out' = "gone"
    /\ failed' = TRUE
    /\ UNCHANGED <<pc, execVars, wsVars, inp, outputVars, inputVars>>

ShowOutput ==
    /\ out = "write"
    /\ browser = "open"
    /\ shown' = taken
    /\ out' = "read"
    /\ UNCHANGED <<pc, execVars, wsVars, inp, printed, taken, inputVars, failed>>

\* The browser is gone.  The first writes after that may still succeed, then
\* they fail and the goroutine returns.
ShowOutputToNobody ==
    /\ out = "write"
    /\ browser = "closed"
    /\ out' \in {"read", "gone"}
    /\ UNCHANGED <<pc, execVars, wsVars, inp, outputVars, inputVars, failed>>

-----------------------------------------------------------------------------
(* WebSocket -> exec stdin. *)

\* ws.ReadMessage.  A text message is for the shell, a binary one a resize; one
\* that cannot be parsed or is of another type is dropped.
ReadMessage ==
    /\ inp = "read"
    /\ received < sent
    /\ received' = received + 1
    /\ inp' \in {"write", "resize", "read"}
    /\ UNCHANGED <<pc, execVars, wsVars, out, outputVars, sent, failed>>

\* A close frame or the end of the connection, after what was sent before.
ReadClose ==
    /\ inp = "read"
    /\ browser = "closed"
    /\ received = sent
    /\ inp' = "gone"
    /\ UNCHANGED <<pc, execVars, wsVars, out, outputVars, inputVars, failed>>

WriteInput ==
    /\ inp = "write"
    /\ inp' = "read"
    /\ UNCHANGED <<pc, execVars, wsVars, out, outputVars, inputVars, failed>>

\* Writing to a shell that has ended may fail, and the goroutine returns.
WriteInputFails ==
    /\ inp = "write"
    /\ exec = "exited" \/ failed
    /\ inp' = "gone"
    /\ UNCHANGED <<pc, execVars, wsVars, out, outputVars, inputVars, failed>>

\* ContainerExecResize; its error is logged only.
Resize ==
    /\ inp = "resize"
    /\ inp' = "read"
    /\ UNCHANGED <<pc, execVars, wsVars, out, outputVars, inputVars, failed>>

-----------------------------------------------------------------------------
(* The end, the shell, and the browser. *)

\* wg.Wait returns once both goroutines have; both connections are closed.
Wait ==
    /\ Goto("wait", "over")
    /\ out = "gone"
    /\ inp = "gone"
    /\ execOpen' = FALSE
    /\ wsOpen' = FALSE
    /\ browser' = "closed"
    /\ UNCHANGED <<exec, out, inp, outputVars, inputVars, failed>>

ShellPrints ==
    /\ exec = "running"
    /\ printed < MaxOutput
    /\ printed' = printed + 1
    /\ UNCHANGED <<pc, execVars, wsVars, out, inp, taken, shown, inputVars, failed>>

ShellExits ==
    /\ exec = "running"
    /\ exec' = "exited"
    /\ UNCHANGED <<pc, execOpen, wsVars, out, inp, outputVars, inputVars, failed>>

BrowserSends ==
    /\ browser = "open"
    /\ sent < MaxInput
    /\ sent' = sent + 1
    /\ UNCHANGED <<pc, execVars, wsVars, out, inp, outputVars, received, failed>>

\* destroyTerminal, or the page or the network goes away.
BrowserCloses ==
    /\ browser \in {"waiting", "open"}
    /\ browser' = "closed"
    /\ UNCHANGED <<pc, execVars, wsOpen, out, inp, outputVars, inputVars, failed>>

SetUp ==
    \/ Inspect
    \/ CreateExec
    \/ AttachExec
    \/ Refuse
    \/ Upgrade
    \/ UpgradeFails

PumpOutput ==
    \/ ReadOutput
    \/ ReadEOF
    \/ ShowOutput
    \/ ShowOutputToNobody

PumpInput ==
    \/ ReadMessage
    \/ ReadClose
    \/ WriteInput
    \/ WriteInputFails
    \/ Resize

Next ==
    \/ SetUp
    \/ PumpOutput
    \/ ReadOutputFails
    \/ PumpInput
    \/ Wait
    \/ ShellPrints
    \/ ShellExits
    \/ BrowserSends
    \/ BrowserCloses

Spec == Init /\ [][Next]_terminalVars

-----------------------------------------------------------------------------
\* However the handler ends, by any of its error returns too, it leaves no
\* connection open, and while a pump runs neither connection is closed.
ConnectionsAccountedFor ==
    /\ pc \in {"over", "refused"} => ~execOpen /\ ~wsOpen
    /\ (out \in {"read", "write"} \/ inp \in {"read", "write", "resize"})
            => execOpen /\ wsOpen

\* What the shell printed before it ended reaches a browser that stays and a
\* connection that holds, the last chunk before io.EOF included.
LastOutputShown ==
    (pc = "wait" /\ exec = "exited" /\ shown < printed)
        ~> (shown = printed \/ browser = "closed" \/ failed)

\* With both ends gone no goroutine is left in a read that never returns.  One
\* end is not enough: each pump is blocked in a read of its own side, and
\* nothing closes the other connection when one of them returns.
SessionEnds ==
    (pc = "wait" /\ exec = "exited" /\ browser = "closed") ~> (pc = "over")
==============================================================================
