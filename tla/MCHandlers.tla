----------------------------- MODULE MCHandlers -----------------------------
(* An instance of Handlers for TLC: the lists of MCContainerList, and        *)
(* containers with every kind of port and image reference.                   *)
EXTENDS Handlers, MCContainerList

Full == [i \in 1..64 |-> i]

Bare(id, image, bindings, exposed) ==
    [id |-> id, name |-> "web", labels |-> "labels", state |-> "running",
     status |-> "Up 5 minutes", age |-> 5, image |-> image, listed |-> I!Spelled(image),
     config |-> TRUE, bindings |-> bindings, exposed |-> exposed]

Bound(ip, public) ==
    [ip |-> ip, public |-> public, private |-> 80 + public, type |-> "tcp"]

One  == <<Bound("v4", 1), Bound("v6", 1), Bound("v4", 1)>>
Two  == <<Bound("v4", 1), [Bound("v4", 1) EXCEPT !.type = "udp"]>>
Four == <<Bound("v4", 1), Bound("v6", 1), Bound("v4", 2), Bound("v6", 2)>>

MCDotted == {"ghcr.io", "lscr.io", "reg.example", "re.po"}

Paths ==
    {<<"repo">>, <<"re.po">>, <<"owner", "/", "repo">>, <<"owner", "/", "re.po">>,
     <<"linuxserver", "/", "repo">>, <<"owner", "/", "repo", "/", "sub">>}

Hosts ==
    {<<>>, <<"ghcr.io", "/">>, <<"lscr.io", "/">>, <<"reg.example", "/">>,
     <<"ghcr.io", ":", "port", "/">>, <<"localhost", ":", "port", "/">>}

\* The short paths with every tag and digest, the others with both.
Images ==
    {image \in [host : Hosts, path : Paths, tag : {<<>>, <<":", "tag">>},
                digest : {<<>>, <<"@", "sha256", ":", "hex">>}] :
        Len(image.path) = 1 \/ <<>> \notin {image.tag, image.digest}}
    \cup [host : {<<>>}, path : {<<>>}, tag : {<<>>},
          digest : {<<"hex">>, <<"sha256", ":", "hex">>}]

Repo == [host |-> <<>>, path |-> <<"repo">>, tag |-> <<>>, digest |-> <<>>]

MCKnown ==
    {Bare(Full, Repo, b, e) : b \in {<<>>, One, Two}, e \in {{}, {<<81, "udp">>}}}
    \cup {Bare(Full, Repo, Four, {})}
    \cup {Bare(Full, image, <<>>, {}) : image \in Images}
    \cup {[Bare(Full, Repo, <<>>, {}) EXCEPT !.state = "exited", !.status = "Exited (0)"],
          [Bare(Full, Repo, One, {}) EXCEPT !.state = "paused"],
          [Bare(Full, Repo, One, {}) EXCEPT !.listed = <<"sha256", ":", "hex">>],
          [Bare(Full, Repo, One, {}) EXCEPT !.config = FALSE]}
=============================================================================
