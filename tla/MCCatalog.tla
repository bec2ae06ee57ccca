------------------------------ MODULE MCCatalog ------------------------------
(***************************************************************************)
(* Small catalogs for TLC: a feed of the first tier that needs a key and   *)
(* has an alternate, a feed without a tier, both switched on or off in     *)
(* every way, renamed, moved, doubled or gone.                             *)
(***************************************************************************)
EXTENDS CatalogSafety

MCText == {"abuse", "ABUSE", "mirror", "exits", "Exits", "mine",
           "PRI1", "pri1", "PRI1_6", "TOR", Blank}

MCFold ==
    [s \in MCText |-> CASE s = "ABUSE" -> "abuse"
                       [] s = "Exits" -> "exits"
                       [] s = "pri1"  -> "PRI1"
                       [] OTHER       -> s]

MCTierOf == [c \in Category |-> IF c \in {"PRI1", "PRI1_6"} THEN "PRI1" ELSE Blank]

At(page, key) == [page |-> page, key |-> key]
Open == At("old", Blank)
Gated == At("old", Hole)

Alternates == {<< >>, <<[name |-> "mirror", url |-> Open]>>}

Firsts ==
    {[name |-> "abuse", url |-> url, cat |-> cat, off |-> off,
      alternates |-> alternates] :
        url \in {Open, Gated}, cat \in {"PRI1", "PRI1_6"},
        off \in BOOLEAN, alternates \in Alternates}

Seconds ==
    {[name |-> name, url |-> url, cat |-> "TOR", off |-> FALSE,
      alternates |-> << >>] :
        name \in {"exits", "abuse"}, url \in {Open, At("new", Blank)}}

Contents ==
    {<< >>} \union {<<f>> : f \in Firsts} \union {<<s>> : s \in Seconds}
    \union {<<f, s>> : f \in {g \in Firsts : ~g.off}, s \in Seconds}

(* A document without a category, one whose only category is empty, and    *)
(* those whose categories have feeds.                                      *)
MCDocuments ==
    LET all == {[cats |-> {items[i].cat : i \in DOMAIN items}, off |-> off,
                 items |-> items] :
                    off \in {{}, {"PRI1"}}, items \in Contents}
    IN  {doc \in all : doc.off \subseteq doc.cats}
        \union {[cats |-> {"TOR"}, off |-> {}, items |-> << >>]}

(* Feeds of the operator: of a tier without its category, of a category    *)
(* without its tier, one that is switched off, and one whose name differs  *)
(* from that of another feed in case only.                                 *)
Mine(name, url) ==
    [name |-> name, url |-> url, cat |-> Blank, tier |-> "PRI1", off |-> FALSE]

Other == [name |-> "mine", url |-> Open, cat |-> "PRI1_6", tier |-> Blank,
          off |-> FALSE]

MCOverlays ==
    {[feeds |-> own, disable |-> disable, keys |-> keys] :
        own \in {<< >>, <<Mine("mine", Gated)>>, <<Mine("exits", Open)>>,
                 <<Mine("Exits", Open)>>,
                 <<Other>>, <<[Other EXCEPT !.off = TRUE]>>,
                 <<Mine("mine", Open), Mine("mine", Gated)>>},
        disable \in {{}, {"mirror"}, {"exits"}},
        keys \in {{}, {<<"abuse", "k">>}, {<<"mine", "k">>}}}

MCRefLists == {{"pri1"}, {"ABUSE", "TOR"}, {"mirror"}, {"mine", "PRI1_6"},
               {Blank, "exits"}, {}}
=============================================================================
