--------------------------- MODULE MCContainerList ---------------------------
(* Instances of ContainerList for TLC. *)
EXTENDS ContainerList

Texts == <<"", "Media", "TV", "Ungrouped", "db", "exited", "id1", "id2", "id3",
           "img", "media", "plex", "running", "tv", "tv box", "web">>

MCRank == [t \in Range(Texts) |-> CHOOSE i \in DOMAIN Texts : Texts[i] = t]

MCFold == [t \in Range(Texts) |->
            CASE t = "Media" -> "media" [] t = "TV" -> "tv" [] OTHER -> t]

MCOccurs(text, q) == <<MCFold[text], MCFold[q]>> \in {<<"tv box", "tv">>, <<"web", "web">>}

Raw(group, name, priority, hide, tags) ==
    [group |-> group, name |-> name, priority |-> priority, hide |-> hide,
     tags |-> tags]

Made(id, name, state, created, raw) ==
    [id |-> id, name |-> name, state |-> state, created |-> created,
     image |-> "img", labels |-> raw]

\* A group or none, priorities that tie, differ or are missing, hidden or not.
First  == {Made("id1", "web", "running", 1, Raw(g, "", p, h, {"TV", ""})) :
            g \in {"", "media"}, p \in {{}, {60}}, h \in {"", "yes"}}
Second == {Made("id2", "db", s, 1, Raw(g, "tv box", p, "no", {})) :
            g \in {"media", "Media"}, p \in {{}, {10}}, s \in {"running", "exited"}}
Third  == {Made("id3", "plex", "exited", 2, Raw("Ungrouped", "", {}, "", {"tv"})),
           Made("id3", "plex", "exited", 2, Raw("Media", "", {60}, "", {"tv"}))}

MCListing == {<<c, d, e>> : c \in First, d \in Second, e \in Third}

MCParam == [query : {"", "tv"}, status : {"", "running"}, group : {"", "media"},
            tag : {"", "TV"}, sort : {"priority", "name", "status", "created"}]
==============================================================================
