---------------------------- MODULE CatalogSafety ----------------------------
(***************************************************************************)
(* What the catalog promises, stated over the documents it was given and   *)
(* not over the marks it makes on the way.                                 *)
(***************************************************************************)
EXTENDS Catalog, FiniteSets

(* "Name uniquely identifies the feed across catalog and overlay"          *)
(* (types.go:16): outcomes, state files and cached copies are kept by it.  *)
NamesAreUnique ==
    \A f, g \in feeds : f.name = g.name => f = g

(* Where a name is declared, and whether anything there, around it or in   *)
(* the overlay switches it off.                                            *)
Declares(item, name) ==
    item.name = name \/ \E i \in DOMAIN item.alternates :
                            item.alternates[i].name = name

SwitchedOff(name) ==
    \/ name \in overlay.disable
    \/ \E i \in DOMAIN overlay.feeds :
          overlay.feeds[i].name = name /\ overlay.feeds[i].off
    \/ \E i \in DOMAIN vendored.items :
          LET item == vendored.items[i]
          IN  Declares(item, name) /\ (item.off \/ item.cat \in vendored.off)

(* A feed of the operator has the tier it states, any other that of its    *)
(* category.                                                               *)
TierStated(f, ref) ==
    IF \E i \in DOMAIN overlay.feeds : overlay.feeds[i].name = f.name
    THEN \E i \in DOMAIN overlay.feeds :
            /\ overlay.feeds[i].name = f.name
            /\ EqualFold(ref, overlay.feeds[i].tier)
    ELSE EqualFold(ref, TierOf[f.cat])

(* "Matching is case-insensitive" (select.go:8).                           *)
Wanted(f, refs) ==
    \E ref \in refs \ {Blank} :
        EqualFold(ref, f.name) \/ EqualFold(ref, f.cat) \/ TierStated(f, ref)

(* An alias gets every feed it refers to, by name, category or tier in any *)
(* case, and no other; never one that is switched off upstream, by its     *)
(* category or in the overlay, and never one whose key is missing          *)
(* (select.go:10-14).  Switching off is by the exact name: of two feeds    *)
(* whose names differ in case only, a reference means both, a disable one. *)
SelectedExactly ==
    answer.call = "select" =>
        answer.feeds = {f \in feeds : /\ Wanted(f, answer.refs)
                                      /\ ~SwitchedOff(f.name)
                                      /\ f.url.key # Hole}

(* No alias loses its last feed in silence: when nothing is left of it,    *)
(* every one of its references has been warned about (root.go:146).        *)
NoSilentLoss ==
    (answer.call = "select" /\ answer.feeds = {}) =>
        answer.refs \subseteq answer.warnings

(* "The overlay never participates" (sync.go:35): whatever was added,      *)
(* disabled or filled in, the difference takes the vendored document to    *)
(* the one upstream, it is empty only when there is none, and it names no  *)
(* secret.                                                                 *)
DiffIsExact ==
    (answer.call = "sync" /\ answer.exit # 1) =>
        LET d   == answer.diff
            old == Range(Listed(vendored))
            new == Range(Listed(upstream))
        IN  /\ (old \ (d.removed \union {p[1] : p \in d.changed}))
                  \union d.added \union {p[2] : p \in d.changed} = new
            /\ d.removed \union {p[1] : p \in d.changed} \subseteq old
            /\ answer.exit = 0 <=> old = new
            /\ \A f \in d.added \union d.removed
                          \union UNION {{p[1], p[2]} : p \in d.changed} :
                  f.url.key \notin Key
=============================================================================
