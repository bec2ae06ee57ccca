------------------------------- MODULE Catalog -------------------------------
(***************************************************************************)
(* internal/catalog: the vendored document and the operator's overlay are  *)
(* loaded into a list of feeds, from which aliases select and which Sync   *)
(* compares with the document upstream.  One loaded catalog may be asked   *)
(* both, any number of times.                                              *)
(*                                                                         *)
(* Feeds are sorted by name wherever the code hands them out, so sets      *)
(* stand for those lists.  Decoding JSON and YAML is left out.             *)
(***************************************************************************)
EXTENDS Naturals, Sequences, Functions

CONSTANTS
    Text,             \* the strings that documents, overlays and aliases use
    Fold,             \* Fold[s]: one for all strings that are s but for case
    Name, Category,   \* of feeds
    Page,             \* what a URL says besides its key
    Key,              \* secrets of the operator
    TierOf,           \* TierOf[c]: the quality tier of a category, or ""
    Documents,        \* upstream catalogs: what the vendored file may hold
    Overlays,         \* what feeds.local.yaml may hold
    RefLists          \* sets of references aliases may be configured with

Hole == "_API_KEY_"
Blank == ""

(* The loader compares exactly, selection does not: two names may be two   *)
(* feeds for the one and the same for the other.                           *)
ASSUME TextAssumption ==
    /\ Name \union Category \union {Blank} \subseteq Text
    /\ Fold \in [Text -> Text]
    /\ \A s \in Text : Fold[s] = Fold[Blank] => s = Blank

ASSUME CatalogAssumption ==
    /\ {Hole, Blank} \intersect Key = {}
    /\ Blank \notin Name \union Category
    /\ TierOf \in [Category -> Text]
    /\ RefLists \subseteq SUBSET Text

Url == [page : Page, key : Key \union {Hole, Blank}]
PublicUrl == [page : Page, key : {Hole, Blank}]

(* A document: categories, of which some are switched off, and in them     *)
(* feeds with alternates.  What is public holds no secret.  An overlay:    *)
(* feeds of its own, each with the category and the tier it states, feeds  *)
(* to switch off, and keys.                                                *)
Link == [name : Name, url : PublicUrl]
Item == [name : Name, url : PublicUrl, cat : Category, off : BOOLEAN,
         alternates : Seq(Link)]
Document == {doc \in [cats : SUBSET Category, off : SUBSET Category,
                      items : Seq(Item)] :
                /\ doc.off \subseteq doc.cats
                /\ \A i \in DOMAIN doc.items : doc.items[i].cat \in doc.cats}
Overlay == [feeds   : Seq([name : Name, url : Url, cat : Category \union {Blank},
                           tier : Text, off : BOOLEAN]),
            disable : SUBSET Name,
            keys    : SUBSET (Name \X Key)]

ASSUME FilesAssumption ==
    Documents \subseteq Document /\ Overlays \subseteq Overlay

VARIABLES
    vendored,   \* the document in the vendored file
    upstream,   \* the document upstream
    overlay,    \* the overlay in force
    feeds,      \* the loaded catalog: its feeds
    kept,       \* the copy of the vendored feeds it holds for Sync
    status,     \* "none", "loaded", or "error"
    answer      \* what the last call returned

vars == <<vendored, upstream, overlay, feeds, kept, status, answer>>

-----------------------------------------------------------------------------
(* The document. *)

Feed(name, url, cat, tier, disabled) ==
    [name |-> name, url |-> url, cat |-> cat, tier |-> tier,
     disabled |-> disabled, requiresKey |-> FALSE]

(* Mutant: an alternate of a feed that is switched off is not. *)
FeedsOfItemOnly(doc, item) ==
    LET out  == item.cat \in doc.off
        base == Feed(item.name, item.url, item.cat, TierOf[item.cat],
                     out \/ item.off)
    IN  [j \in 0 .. Len(item.alternates) |->
            IF j = 0 THEN base
            ELSE [base EXCEPT !.name = item.alternates[j].name,
                              !.url = item.alternates[j].url,
                              !.disabled = out]]

(* A feed and its alternates, which are feeds of their own. *)
FeedsOf(doc, item) ==
    LET base == Feed(item.name, item.url, item.cat, TierOf[item.cat],
                     item.cat \in doc.off \/ item.off)
    IN  [j \in 0 .. Len(item.alternates) |->
            IF j = 0 THEN base
            ELSE [base EXCEPT !.name = item.alternates[j].name,
                              !.url = item.alternates[j].url]]

(* A list of feeds is kept by place: item and alternate in the document,   *)
(* or 0 and the position in the overlay.                                   *)
Places(doc) ==
    UNION {{i} \X (0 .. Len(doc.items[i].alternates)) : i \in DOMAIN doc.items}

Listed(doc) == [p \in Places(doc) |-> FeedsOf(doc, doc.items[p[1]])[p[2]]]

NamesDiffer(list) ==
    \A p, q \in DOMAIN list : list[p].name = list[q].name => p = q

(* parseUpstream fails on an empty document and on a name used twice. *)
Parses(doc) == doc.cats # {} /\ NamesDiffer(Listed(doc))

-----------------------------------------------------------------------------
(* The overlay: additions, then disables, then keys. *)

Added(list, own) ==
    [p \in DOMAIN list \union ({0} \X DOMAIN own) |->
        IF p[1] # 0 THEN list[p]
        ELSE LET f == own[p[2]]
             IN  Feed(f.name, f.url, f.cat, f.tier, f.off)]

(* Mutant: added feeds are compared with the vendored ones only. *)
AddableToVendored(list, own) ==
    \A i \in DOMAIN own : \A p \in DOMAIN list : own[i].name # list[p].name

Addable(list, own) == NamesDiffer(Added(list, own))

Names(list) == {list[p].name : p \in DOMAIN list}

UrlOf(list, name) == (CHOOSE f \in Range(list) : f.name = name).url

Applies(list, ov) ==
    /\ Addable(list, ov.feeds)
    /\ LET all == Added(list, ov.feeds)
       IN  /\ ov.disable \subseteq Names(all)
           /\ \A k \in ov.keys : /\ k[1] \in Names(all)
                                 /\ UrlOf(all, k[1]).key = Hole

(* The key is put in the place of the hole. *)
Filled(f, keys) ==
    [f EXCEPT !.url.key =
        IF \E k \in keys : k[1] = f.name
        THEN (CHOOSE k \in keys : k[1] = f.name)[2] ELSE @]

Overlaid(list, ov) ==
    {Filled([f EXCEPT !.disabled = @ \/ f.name \in ov.disable], ov.keys) :
        f \in Range(Added(list, ov.feeds))}

Marked(set) == {[f EXCEPT !.requiresKey = f.url.key = Hole] : f \in set}

(* Mutant: the list for Sync shares its memory with the one the overlay is *)
(* applied to, unless an addition moves that elsewhere.                    *)
LoadShared(doc, ov) ==
    LET all == Marked(Overlaid(Listed(doc), ov))
    IN  [feeds |-> all,
         kept  |-> IF ov.feeds = << >> THEN all ELSE Range(Listed(doc))]

Loaded(doc, ov) ==
    [feeds |-> Marked(Overlaid(Listed(doc), ov)),
     kept  |-> Range(Listed(doc))]

NoOverlay == [feeds |-> << >>, disable |-> {}, keys |-> {}]

-----------------------------------------------------------------------------
(* Selection. *)

EqualFold(s, t) == Fold[s] = Fold[t]

Matches(f, ref) ==
    /\ ref # Blank
    /\ \/ EqualFold(ref, f.name)
       \/ EqualFold(ref, f.cat)
       \/ f.tier # Blank /\ EqualFold(ref, f.tier)

Select(all, refs) ==
    {f \in all : /\ ~f.disabled /\ ~f.requiresKey
                 /\ \E ref \in refs : Matches(f, ref)}

(* Mutant: only references that match nothing at all are warned about.     *)
WarningsOfUnknown(all, refs) ==
    {ref \in refs : \A f \in all : ~Matches(f, ref)}

(* loadEnv warns of every reference that matches no enabled feed.          *)
Warnings(all, refs) == {ref \in refs : Select(all, {ref}) = {}}

-----------------------------------------------------------------------------
(* Comparison, by name. *)

Differ(f, g) == f.url # g.url \/ f.cat # g.cat \/ f.tier # g.tier
                \/ f.disabled # g.disabled

Diff(old, new) ==
    [added   |-> {f \in new : \A g \in old : g.name # f.name},
     removed |-> {f \in old : \A g \in new : g.name # f.name},
     changed |-> {p \in old \X new : p[1].name = p[2].name /\ Differ(p[1], p[2])}]

Empty(d) == d.added = {} /\ d.removed = {} /\ d.changed = {}

-----------------------------------------------------------------------------

NoAnswer == [call |-> "none"]

Init ==
    /\ vendored \in Documents /\ upstream \in Documents
    /\ overlay = NoOverlay
    /\ feeds = {} /\ kept = {}
    /\ status = "none" /\ answer = NoAnswer

(* Load, with the overlay if there is one: an error or a catalog. *)
Load(ov) ==
    /\ status = "none"
    /\ overlay' = ov
    /\ IF Parses(vendored) /\ Applies(Listed(vendored), ov)
       THEN /\ feeds' = Loaded(vendored, ov).feeds
            /\ kept' = Loaded(vendored, ov).kept
            /\ status' = "loaded"
       ELSE /\ status' = "error"
            /\ UNCHANGED <<feeds, kept>>
    /\ UNCHANGED <<vendored, upstream, answer>>

Resolve(refs) ==
    /\ status = "loaded"
    /\ answer' = [call |-> "select", refs |-> refs,
                  feeds |-> Select(feeds, refs),
                  warnings |-> Warnings(feeds, refs)]
    /\ UNCHANGED <<vendored, upstream, overlay, feeds, kept, status>>

(* Sync fetches without a validator, so it meets a document or an error;   *)
(* the exit code tells a difference (3) from none (0) and from errors (1). *)
Sync ==
    /\ status = "loaded"
    /\ answer' =
          IF Parses(upstream)
          THEN LET d == Diff(kept, Range(Listed(upstream)))
               IN  [call |-> "sync", diff |-> d,
                    exit |-> IF Empty(d) THEN 0 ELSE 3]
          ELSE [call |-> "sync", exit |-> 1]
    /\ UNCHANGED <<vendored, upstream, overlay, feeds, kept, status>>

SyncFails ==
    /\ status = "loaded"
    /\ answer' = [call |-> "sync", exit |-> 1]
    /\ UNCHANGED <<vendored, upstream, overlay, feeds, kept, status>>

Next ==
    \/ \E ov \in Overlays \union {NoOverlay} : Load(ov)
    \/ \E refs \in RefLists : Resolve(refs)
    \/ Sync \/ SyncFails

Spec == Init /\ [][Next]_vars
=============================================================================
