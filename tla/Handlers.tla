------------------------------ MODULE Handlers ------------------------------
(***************************************************************************)
(* The routes of registerRoutes: the handlers of internal/server/          *)
(* handlers.go and api.go, and those of /events and /ws/terminal up to     *)
(* their loops, each from its request through the middleware to the        *)
(* response and the log.  The lists of containers are ContainerList's.     *)
(***************************************************************************)
EXTENDS ContainerList

CONSTANTS
    Known,          \* containers Docker may be asked for, see Inspection
    Dotted,         \* names of hosts and images with a dot in them
    Nothing         \* no request, no container

W == INSTANCE Middleware
I == INSTANCE Inspection

\* A binding publishes a port: its public port is not zero.
Binding == [ip : STRING, public : Nat \ {0}, private : Nat, type : STRING]

\* Docker's identifiers have 64 characters, of which ID[:12] takes 12.
ASSUME KnownAssumption ==
    \A raw \in Known :
        /\ Len(raw.id) = 64
        /\ raw.bindings \in Seq(Binding)
        /\ raw.exposed \in SUBSET (Nat \X STRING) /\ IsFiniteSet(raw.exposed)
        /\ {raw.image.host, raw.image.path} \subseteq Seq(STRING)
        /\ I!IsReference(raw.image)

ASSUME DottedAssumption ==
    /\ {"ghcr.io", "lscr.io"} \subseteq Dotted
    /\ Dotted \cap {"/", ":", "@", "port", "localhost", "linuxserver", "sha256", "hex"} = {}

VARIABLES
    route,          \* of the request
    response,       \* see Middleware
    subject,        \* the container the request names and Docker knows
    card, detail    \* what the page shows of it

oneVars == <<subject, card, detail>>

HandlersInit ==
    /\ Init
    /\ route = Nothing
    /\ response = W!Blank
    /\ subject = Nothing
    /\ card = Nothing
    /\ detail = Nothing

\* A request to r, which the handler answers with one of responses.
Respond(r, authorized, responses) ==
    /\ route = Nothing
    /\ route' = r
    /\ response' \in W!chain(authorized, responses)

-----------------------------------------------------------------------------
(* Handlers that are asked for a list, and give one.                         *)

PartialContainers(p) ==
    /\ Respond("partial", TRUE, {W!Rendered(W!Blank)})
    /\ ServePartial(p)
    /\ UNCHANGED oneVars

APIContainers(p) ==
    /\ Respond("api", TRUE, {W!Rendered(W!Blank)})
    /\ ServeAPI(p)
    /\ UNCHANGED oneVars

-----------------------------------------------------------------------------
(* What the handlers may write: the call they make is answered (ok) or not.  *)

handleDashboard(ok) ==
    IF ok THEN W!renderPage(W!Blank)
    ELSE W!renderError(W!Blank, "ListFailed", 500)

\* An error is shown on the page.
handleHost(ok) == W!renderPage(W!Blank)

containersPartial(ok) ==
    IF ok THEN W!renderPartial(W!Blank)
    ELSE {W!HttpError(W!Blank, "ListFailed", 500)}

API(code, ok) == W!writeJSON(W!Blank, IF ok THEN 200 ELSE code)

\* Headers are flushed at once: 200 is sent as it is kept.
handleSSE(ok) == {W!Write(W!Blank, "stream")}

handleTerminalWS(ok) ==
    IF ok THEN {W!Hijack(W!Blank)}
    ELSE {W!HttpError(W!Blank, "refused", code) : code \in {400, 404, 500}}

\* http.FileServer: the file, or none of that name.
FileServer(ok) ==
    {IF ok THEN W!Write(W!Blank, "file") ELSE W!HttpError(W!Blank, "PageNotFound", 404)}

\* ServeMux, for a path or a method no pattern has.
NotFound == {W!HttpError(W!Blank, "PageNotFound", 404)}

MethodNotAllowed == {W!HttpError(W!Blank, "MethodNotAllowed", 405)}

Answers(r, ok) ==
    CASE r = "dashboard" -> handleDashboard(ok)
      [] r = "host"      -> handleHost(ok)
      [] r = "partial"   -> containersPartial(ok)
      [] r \in {"api", "apiHost"} -> API(500, ok)
      [] r = "healthz"   -> API(503, ok)
      [] r = "events"    -> handleSSE(ok)
      [] r = "terminal"  -> handleTerminalWS(ok)
      [] r = "static"    -> FileServer(ok)
      [] r = "method"    -> MethodNotAllowed
      [] OTHER           -> NotFound

ListRoutes == {"partial", "api"}

OtherRoutes ==
    {"dashboard", "host", "apiHost", "healthz", "events", "terminal", "static",
     "method", "unknown"}

OneRoutes == {"card", "detail", "detailJSON"}

ASSUME NothingAssumption ==
    /\ Nothing \notin Known
    /\ Nothing \notin ListRoutes \cup OtherRoutes \cup OneRoutes

\* Any other request, and one for a list that fails, is not rendered or is not
\* authorized.  basicAuthMiddleware lets /healthz pass.
Request(r, authorized) ==
    \E ok \in BOOLEAN :
        /\ Respond(r, authorized \/ r = "healthz",
                   Answers(r, ok) \ IF r \in ListRoutes /\ ok
                                    THEN {W!Rendered(W!Blank)} ELSE {})
        /\ UNCHANGED <<listVars, oneVars>>

-----------------------------------------------------------------------------
(* Handlers that are asked for one container.                                *)

\* Not authorized, no id, or an id Docker does not know.
NotInspected(r, authorized) ==
    /\ Respond(r, authorized,
               IF r = "detailJSON" THEN API(404, FALSE)
               ELSE {W!HttpError(W!Blank, "MissingId", 400),
                     W!HttpError(W!Blank, "NotFound", 404)})
    /\ UNCHANGED <<listVars, oneVars>>

InspectionPanics(r, raw) ==
    /\ I!InspectPanics(raw)
    /\ Respond(r, TRUE, {W!Panic(W!Blank)})
    /\ subject' = raw
    /\ UNCHANGED <<listVars, card, detail>>

handlePartialContainerCard(raw) ==
    /\ ~I!InspectPanics(raw)
    /\ Respond("card", TRUE, W!renderPartial(W!Blank))
    /\ subject' = raw
    /\ \E d \in I!containerDetailFromInspect(raw) : card' = I!Card(d)
    /\ UNCHANGED <<listVars, detail>>

\* handlePartialDetail, and handleAPIContainerDetail with JSON.
Detail(r, raw) ==
    /\ ~I!InspectPanics(raw)
    /\ Respond(r, TRUE, IF r = "detail" THEN W!renderPartial(W!Blank) ELSE API(404, TRUE))
    /\ subject' = raw
    /\ detail' \in I!containerDetailFromInspect(raw)
    /\ UNCHANGED <<listVars, card>>

\* The handlers keep nothing from one request to the next.
NextRequest ==
    /\ route # Nothing
    /\ route' = Nothing
    /\ response' = W!Blank
    /\ asked' = NoParam
    /\ page' \in ListGrouped(containers)
    /\ json' = <<>>
    /\ subject' = Nothing
    /\ card' = Nothing
    /\ detail' = Nothing
    /\ UNCHANGED containers

HandlersNext ==
    \/ \E p \in Param : PartialContainers(p) \/ APIContainers(p)
    \/ \E r \in OtherRoutes \cup ListRoutes, a \in BOOLEAN : Request(r, a)
    \/ \E r \in OneRoutes, a \in BOOLEAN : NotInspected(r, a)
    \/ \E r \in OneRoutes, raw \in Known : InspectionPanics(r, raw)
    \/ \E raw \in Known : handlePartialContainerCard(raw)
    \/ \E r \in {"detail", "detailJSON"}, raw \in Known : Detail(r, raw)
    \/ NextRequest

HandlersSpec == HandlersInit /\ [][HandlersNext]_<<listVars, route, response, oneVars>>

-----------------------------------------------------------------------------
\* The status in the log is the one that was sent, although WriteHeader keeps
\* the last and net/http sends the first, unless output had begun when the
\* handler failed, or the connection was taken over.
LoggedIsSent ==
    response.logged /\ response.status # response.sent =>
        response.sent = 101 \/ Contains(response.body, "part")

\* Every request that passes authentication leaves a line in the log, one whose
\* handler panics too, and that one is answered 500 with nothing else.
PanicIsAnswered ==
    route # Nothing =>
        /\ response.logged \/ response = W!Unauthorized
        /\ response.panicked =>
            response.sent = 500 /\ response.body = <<"InternalServerError">>

\* A card made from an inspection says the same of a container as the card made
\* from the list, in whatever order the map of an inspection is iterated: it has
\* the same element id, name, state and labels, the same image unless the list
\* has an identifier there, and the same ports if there are no more than three,
\* exposed ones included.  It does not open the same detail, as an inspection
\* leaves ID empty, nor does its last line agree, where Uptime is zero or the
\* state stands for Docker's text.
CardsAgree ==
    card # Nothing =>
        LET listed == I!Card(I!ContainerFromAPI(subject))
        IN  /\ \A f \in {"element", "name", "state", "labels"} : card[f] = listed[f]
            /\ subject.listed = I!Spelled(subject.image) => card.image = listed.image
            /\ Cardinality(I!InspectedPorts(subject)) <= 3 =>
                Range(card.ports) = Range(listed.ports) /\ card.more = listed.more

\* On a card from the list every published address of a port is shown or
\* counted, and only once, although Docker lists some twice and exposed ones too.
PortsAccountedFor ==
    subject # Nothing /\ subject.state = "running" =>
        LET listed == I!Card(I!ContainerFromAPI(subject))
        IN  Len(listed.ports) + listed.more
                = Cardinality({I!Port(b) : b \in Range(subject.bindings)})

\* The link of the detail panel names the repository of the image, whatever its
\* registry, port, tag and digest, and every image of Docker Hub without a dot has
\* one.  A reference that is only an identifier is excepted, and a registry whose
\* host has no dot.
RepoURLNamesImage ==
    detail # Nothing =>
        LET host  == subject.image.host
            path  == subject.image.path
            owner == IF Head(detail.repo) = "github.com/linuxserver/docker-"
                     THEN <<"linuxserver", "/">> ELSE <<>>
            named == owner \o Tail(detail.repo)
        IN  path # <<>> /\ (host = <<>> \/ Range(host) \cap Dotted # {}) =>
            /\ detail.repo # <<>> =>
                \/ named = path
                \/ "ghcr.io" \in Range(host) /\ named = SubSeq(path, 1, 3)
            /\ host = <<>> /\ Range(path) \cap Dotted = {} => detail.repo # <<>>
=============================================================================
