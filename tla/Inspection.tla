----------------------------- MODULE Inspection -----------------------------
(***************************************************************************)
(* The two conversions of a container: ContainerFromAPI of                 *)
(* internal/docker/models.go, from the list Docker gives, and              *)
(* containerDetailFromInspect of internal/service/container.go, from an    *)
(* inspection.  The first is on the dashboard's cards, the second in the   *)
(* detail panel and on a card that is refreshed by itself.                 *)
(*                                                                         *)
(* raw is what Docker knows of a container:                                *)
(*   id          its identifier, a sequence of characters                  *)
(*   name, state, labels                                                   *)
(*   status      the text the list has for its state                       *)
(*   age         how long ago it was created                               *)
(*   image       the reference it was made from, [host, path, tag, digest] *)
(*   listed      the image as the list has it: an identifier when the      *)
(*               reference names another image by now                      *)
(*   config      FALSE if an inspection comes without Config or State      *)
(*   bindings    published ports, [ip, public, private, type], as listed   *)
(*   exposed     the ports the image exposes, <<private, type>>            *)
(* type is the protocol.  Labels are parsed the same way in both.  Fields  *)
(* that no card shows are left out.                                        *)
(***************************************************************************)
EXTENDS Integers, SequencesExt, FiniteSetsExt, Loops

CONSTANT Dotted     \* names with a dot in them

None == ""

\* ID[:12].
ShortID(id) == SubSeq(id, 1, 12)

Port(b) ==
    [container |-> <<b.private, b.type>>, host |-> b.public, protocol |-> b.type, ip |-> b.ip]

Unpublished(e) == [ip |-> None, public |-> 0, private |-> e[1], type |-> e[2]]

Distinct(ps, b) ==
    IF b.public = 0 \/ Contains(ps, Port(b)) THEN ps ELSE Append(ps, Port(b))

\* Faulty variant: two addresses of one published port count as duplicates.
APIPortsByNumber(raw) ==
    LET add(ps, b) == IF \E i \in DOMAIN ps : ps[i].host = b.public THEN ps
                      ELSE Distinct(ps, b)
    IN  FoldLeft(add, <<>>, raw.bindings)

\* The ports after i turns of the loop.
Collecting(bs) ==
    LET ports[i \in 0..Len(bs)] ==
            IF i = 0 THEN <<>> ELSE Distinct(ports[i - 1], bs[i])
    IN  ports

\* Docker lists the exposed ports too, with a public port of zero.
APIPorts(raw) ==
    LET bs == raw.bindings \o SetToSeq({Unpublished(e) : e \in raw.exposed})
    IN  Collecting(bs)[Len(bs)]

\* Since its creation, not its last start.
Uptime(raw) == IF raw.state = "running" THEN raw.age ELSE 0

ContainerFromAPI(raw) ==
    [id |-> raw.id, short |-> ShortID(raw.id), name |-> raw.name, image |-> raw.listed,
     state |-> raw.state, status |-> raw.status, uptime |-> Uptime(raw),
     labels |-> raw.labels, ports |-> APIPorts(raw)]

\* Faulty variant: of the bindings of a port only one is taken.
InspectedPortsOnce(raw) ==
    {Port(CHOOSE b \in Range(raw.bindings) : <<b.private, b.type>> = port) :
        port \in {<<b.private, b.type>> : b \in Range(raw.bindings)}}

\* An inspection maps each port to its bindings, none for one that is only
\* exposed.
InspectedPorts(raw) ==
    LET bound == {Port(b) : b \in Range(raw.bindings)}
    IN  bound \cup {Port(Unpublished(e)) :
                        e \in raw.exposed \ {p.container : p \in bound}}

\* raw.Config and raw.State are used before they are compared with nil.
InspectPanics(raw) == ~raw.config

-----------------------------------------------------------------------------
(* InferRepoURL for an image without the labels that name a repository, on a *)
(* reference that is a sequence of tokens: names, "/", ":" and "@".          *)

\* [host[:port]/]path[:tag][@digest], or an identifier: a digest and nothing else.
Spelled(image) == image.host \o image.path \o image.tag \o image.digest

\* A host has a dot, a port, or is localhost.
IsHost(host) ==
    \/ host = <<>>
    \/ \E h \in Dotted \cup {"localhost"} : host = <<h, "/">>
    \/ Len(host) = 4 /\ host = <<host[1], ":", "port", "/">>

\* Names between slashes.
IsPath(path) ==
    /\ Len(path) % 2 = 1
    /\ \A i \in DOMAIN path :
        path[i] \notin {":", "@"} /\ (path[i] = "/" <=> i % 2 = 0)

\* What Docker accepts as a reference.  What comes before the first slash is the
\* host if it can be one, and no image has a name that looks like its identifier.
IsReference(image) ==
    \/ /\ image.host = <<>> /\ image.path = <<>> /\ image.tag = <<>>
       /\ image.digest \in {<<"hex">>, <<"sha256", ":", "hex">>}
    \/ /\ IsHost(image.host) /\ IsPath(image.path)
       /\ image.tag \in {<<>>, <<":", "tag">>}
       /\ image.digest \in {<<>>, <<"@", "sha256", ":", "hex">>}
       /\ image.host = <<>> =>
            /\ image.path # <<"hex">>
            /\ Len(image.path) > 1 => image.path[1] \notin Dotted \cup {"localhost"}

Upto(img, i) == SubSeq(img, 1, i - 1)

Positions(img, token) == {i \in DOMAIN img : img[i] = token}

StripTag(img) ==
    LET colons == Positions(img, ":")
    IN  IF colons = {} THEN img ELSE Upto(img, Max(colons))

\* Faulty variant: a digest is left to be stripped as a tag is.
StripDigestAsTag(img) == img

StripDigest(img) ==
    LET ats == Positions(img, "@") IN IF ats = {} THEN img ELSE Upto(img, Min(ats))

TrimPrefix(img, prefix) ==
    IF IsPrefix(prefix, img) THEN SubSeq(img, Len(prefix) + 1, Len(img)) ELSE img

\* The site and what follows it.
InferRepoURL(image) ==
    LET img     == TrimPrefix(StripTag(StripDigest(image)), <<"sha256", ":">>)
        ghcr    == TrimPrefix(img, <<"ghcr.io", "/">>)
        cleaned == TrimPrefix(img, <<"lscr.io", "/">>)
        slashes == Positions(img, "/")
    IN  IF img = <<"hex">> THEN <<>>
        ELSE IF img # ghcr /\ Contains(ghcr, "/") THEN <<"github.com/">> \o SubSeq(ghcr, 1, 3)
        ELSE IF IsPrefix(<<"linuxserver", "/">>, cleaned)
             THEN <<"github.com/linuxserver/docker-">> \o SubSeq(cleaned, 3, Len(cleaned))
        ELSE IF Range(img) \cap Dotted # {} THEN <<>>
        ELSE IF slashes = {} THEN <<"hub.docker.com/_/">> \o img
        ELSE <<"hub.docker.com/r/">> \o img

\* In the order of an iteration over a map.  ID and Uptime are never set, and
\* Status is the state again.
containerDetailFromInspect(raw) ==
    {[id |-> <<>>, short |-> ShortID(raw.id), name |-> raw.name,
      image |-> Spelled(raw.image), state |-> raw.state, status |-> raw.state,
      uptime |-> 0, labels |-> raw.labels, ports |-> ps,
      repo |-> InferRepoURL(Spelled(raw.image))] :
        ps \in SetToSeqs(InspectedPorts(raw))}

-----------------------------------------------------------------------------
(* container_card.html.                                                      *)

firstN(ports, n) == IF Len(ports) <= n THEN ports ELSE SubSeq(ports, 1, n)

\* Those of a running container.
CardPorts(c) == IF c.state = "running" THEN c.ports ELSE <<>>

\* Of the first three, those that are published.
PortsShown(c) == Kept(firstN(CardPorts(c), 3), {p \in Range(CardPorts(c)) : p.host # 0})

More(c) == IF Len(CardPorts(c)) > 3 THEN Len(CardPorts(c)) - 3 ELSE 0

LastLine(c) == IF c.state = "running" THEN [uptime |-> c.uptime] ELSE [status |-> c.status]

\* element is the id of the HTML element, opens what a click asks the detail of.
Card(c) ==
    [element |-> c.short, opens |-> c.id, name |-> c.name, image |-> c.image,
     state |-> c.state, labels |-> c.labels, ports |-> PortsShown(c), more |-> More(c),
     last |-> LastLine(c)]
=============================================================================
