---------------------------- MODULE CatalogProofs ----------------------------
(***************************************************************************)
(* What the catalog promises, for any documents, overlays and references:  *)
(* names are unique, aliases get exactly the feeds they refer to in any    *)
(* case, none is lost in silence, and the comparison with the document     *)
(* upstream is exact and names no secret.                                  *)
(*                                                                         *)
(* The invariant says where the loaded catalog and the last answer come    *)
(* from.  The rest follows feeds through the list: from their place in the *)
(* document or in the overlay to what aliases see of them.                 *)
(***************************************************************************)
EXTENDS CatalogSafety, TLAPS

Given ==
    /\ vendored \in Documents /\ upstream \in Documents
    /\ overlay \in Overlays \union {NoOverlay}
    /\ status \in {"none", "loaded", "error"}

Selection ==
    [call |-> "select", refs |-> answer.refs,
     feeds |-> Select(feeds, answer.refs),
     warnings |-> Warnings(feeds, answer.refs)]

Comparison ==
    LET d == Diff(kept, Range(Listed(upstream)))
    IN  [call |-> "sync", diff |-> d, exit |-> IF Empty(d) THEN 0 ELSE 3]

CatalogInv ==
    /\ Given
    /\ status = "loaded" =>
          /\ Parses(vendored) /\ Applies(Listed(vendored), overlay)
          /\ feeds = Loaded(vendored, overlay).feeds
          /\ kept = Loaded(vendored, overlay).kept
    /\ status # "loaded" => feeds = {} /\ answer = NoAnswer
    /\ \/ answer = NoAnswer
       \/ answer = Selection /\ answer.refs \subseteq Text
       \/ Parses(upstream) /\ answer = Comparison
       \/ answer = [call |-> "sync", exit |-> 1]

(* What is loaded, and what has been answered, comes from the files.       *)
LEMMA InitInvariant == Init => CatalogInv
BY DEF Init, CatalogInv, Given

(* Loading and answering keep to the files.                                *)
LEMMA Step == CatalogInv /\ [Next]_vars => CatalogInv'
<1> SUFFICES ASSUME CatalogInv, [Next]_vars PROVE CatalogInv'
  OBVIOUS
<1>1. ASSUME NEW ov \in Overlays \union {NoOverlay}, Load(ov)
      PROVE  CatalogInv'
  <2>1. status = "none" /\ answer = NoAnswer /\ answer' = NoAnswer /\ feeds = {}
    BY <1>1 DEF Load, CatalogInv
  <2>2. CASE Parses(vendored) /\ Applies(Listed(vendored), ov)
    BY <1>1, <2>1, <2>2 DEF Load, CatalogInv, Given
  <2>3. CASE ~(Parses(vendored) /\ Applies(Listed(vendored), ov))
    BY <1>1, <2>1, <2>3 DEF Load, CatalogInv, Given
  <2> QED
    BY <2>2, <2>3
<1>2. ASSUME NEW refs \in RefLists, Resolve(refs)
      PROVE  CatalogInv'
  <2>1. /\ status = "loaded"
        /\ answer' = [call |-> "select", refs |-> refs,
                      feeds |-> Select(feeds, refs),
                      warnings |-> Warnings(feeds, refs)]
        /\ UNCHANGED <<vendored, upstream, overlay, feeds, kept, status>>
    BY <1>2 DEF Resolve
  <2>2. answer'.refs = refs
    BY <2>1
  <2>3. answer' = Selection' /\ answer'.refs \subseteq Text
    BY <2>1, <2>2, CatalogAssumption DEF Selection
  <2> QED
    BY <2>1, <2>3 DEF CatalogInv, Given
<1>3. CASE Sync
  <2>1. /\ status = "loaded"
        /\ UNCHANGED <<vendored, upstream, overlay, feeds, kept, status>>
    BY <1>3 DEF Sync
  <2>2. CASE Parses(upstream)
    <3>1. answer' = Comparison'
      BY <1>3, <2>2 DEF Sync, Comparison
    <3> QED
      BY <2>1, <2>2, <3>1 DEF CatalogInv, Given
  <2>3. CASE ~Parses(upstream)
    BY <1>3, <2>1, <2>3 DEF Sync, CatalogInv, Given
  <2> QED
    BY <2>2, <2>3
<1>4. CASE SyncFails
  BY <1>4 DEF SyncFails, CatalogInv, Given
<1>5. CASE UNCHANGED vars
  BY <1>5 DEF vars, CatalogInv, Given, Selection, Comparison
<1> QED
  BY <1>1, <1>2, <1>3, <1>4, <1>5 DEF Next

(* The invariant holds throughout.                                         *)
THEOREM Invariance == Spec => []CatalogInv
BY InitInvariant, Step, PTL DEF Spec

-----------------------------------------------------------------------------
(* The document. *)

(* Every item is a feed, and so is every alternate.                        *)
LEMMA PlaceIs ==
    ASSUME NEW doc, NEW p \in Places(doc)
    PROVE  /\ p = <<p[1], p[2]>>
           /\ p[1] \in DOMAIN doc.items
           /\ p[2] \in 0 .. Len(doc.items[p[1]].alternates)
BY DEF Places

(* Each feed and each alternate has a place.                               *)
LEMMA PlaceOf ==
    ASSUME NEW doc, NEW i \in DOMAIN doc.items,
           NEW j \in 0 .. Len(doc.items[i].alternates)
    PROVE  <<i, j>> \in Places(doc)
BY DEF Places

(* What the document says of the feed at a place.                          *)
LEMMA ListedFeed ==
    ASSUME NEW doc \in Document, NEW p \in Places(doc)
    PROVE  LET item == doc.items[p[1]]
               f    == Listed(doc)[p]
           IN  /\ item \in Item /\ p[1] \in 1 .. Len(doc.items)
               /\ \E n, u, c, t, d : f = Feed(n, u, c, t, d)
               /\ f.name = IF p[2] = 0 THEN item.name
                           ELSE item.alternates[p[2]].name
               /\ f.url \in PublicUrl
               /\ f.cat = item.cat /\ f.tier = TierOf[item.cat]
               /\ f.disabled = (item.cat \in doc.off \/ item.off)
<1> DEFINE item == doc.items[p[1]]
           f    == Listed(doc)[p]
           off  == item.cat \in doc.off \/ item.off
           base == Feed(item.name, item.url, item.cat, TierOf[item.cat], off)
<1>1. p[1] \in DOMAIN doc.items /\ p[2] \in 0 .. Len(item.alternates)
  BY PlaceIs
<1>2. doc.items \in Seq(Item)
  BY DEF Document
<1>3. item \in Item /\ p[1] \in 1 .. Len(doc.items)
  BY <1>1, <1>2
<1>4. f = FeedsOf(doc, item)[p[2]]
  BY DEF Listed
<1>5. f = IF p[2] = 0 THEN base
          ELSE [base EXCEPT !.name = item.alternates[p[2]].name,
                            !.url = item.alternates[p[2]].url]
  BY <1>1, <1>4 DEF FeedsOf
<1>6. PICK n, u : /\ f = Feed(n, u, item.cat, TierOf[item.cat], off)
                  /\ n = IF p[2] = 0 THEN item.name
                         ELSE item.alternates[p[2]].name
                  /\ u \in PublicUrl
  <2>1. CASE p[2] = 0
    <3>1. item.url \in PublicUrl
      BY <1>3 DEF Item
    <3> QED
      BY <1>5, <2>1, <3>1
  <2>2. CASE p[2] # 0
    <3>1. item.alternates \in Seq(Link)
      BY <1>3 DEF Item
    <3>2. item.alternates[p[2]] \in Link
      BY <1>1, <2>2, <3>1
    <3>3. item.alternates[p[2]].url \in PublicUrl
      BY <3>2 DEF Link
    <3>4. f = Feed(item.alternates[p[2]].name, item.alternates[p[2]].url,
                   item.cat, TierOf[item.cat], off)
      BY <1>5, <2>2 DEF Feed
    <3> QED
      BY <2>2, <3>3, <3>4
  <2> QED
    BY <2>1, <2>2
<1> HIDE DEF f, off, item
<1>7. /\ f.name = n /\ f.url = u /\ f.cat = item.cat
      /\ f.tier = TierOf[item.cat] /\ f.disabled = off
  BY <1>6 DEF Feed
<1> QED
  BY <1>3, <1>6, <1>7 DEF f, item, off

(* A feed of a list is a feed at a place of it.                            *)
LEMMA InRange ==
    ASSUME NEW list, NEW f
    PROVE  f \in Range(list) <=> \E p \in DOMAIN list : f = list[p]
BY DEF Range

(* In a document that parses, and in any list with different names, a name *)
(* stands for one feed.                                                    *)
LEMMA OneOfName ==
    ASSUME NEW list, NamesDiffer(list),
           NEW f \in Range(list), NEW g \in Range(list), f.name = g.name
    PROVE  f = g
<1>1. PICK p \in DOMAIN list : f = list[p]
  BY InRange
<1>2. PICK q \in DOMAIN list : g = list[q]
  BY InRange
<1>3. p = q
  BY <1>1, <1>2 DEF NamesDiffer
<1> QED
  BY <1>1, <1>2, <1>3

-----------------------------------------------------------------------------
(* The comparison. *)

(* Two feeds of documents with the same name and without a difference are  *)
(* the same.                                                               *)
LEMMA SameUnlessDiffer ==
    ASSUME NEW a \in Documents, NEW b \in Documents,
           NEW f \in Range(Listed(a)), NEW g \in Range(Listed(b)),
           f.name = g.name
    PROVE  Differ(f, g) <=> f # g
<1>1. ASSUME NEW doc \in Documents, NEW h \in Range(Listed(doc))
      PROVE  h = Feed(h.name, h.url, h.cat, h.tier, h.disabled)
  <2>1. PICK p \in Places(doc) : h = Listed(doc)[p]
    BY <1>1, InRange DEF Listed
  <2>2. doc \in Document
    BY FilesAssumption
  <2>3. PICK n, u, c, t, d : h = Feed(n, u, c, t, d)
    BY <2>1, <2>2, ListedFeed
  <2>4. /\ h.name = n /\ h.url = u /\ h.cat = c /\ h.tier = t
        /\ h.disabled = d
    BY <2>3 DEF Feed
  <2> QED
    BY <2>3, <2>4
<1>2. f = Feed(f.name, f.url, f.cat, f.tier, f.disabled)
  BY <1>1
<1>3. g = Feed(g.name, g.url, g.cat, g.tier, g.disabled)
  BY <1>1
<1> QED
  BY <1>2, <1>3 DEF Differ

(* No feed of a document holds a secret.                                   *)
LEMMA NoSecretListed ==
    ASSUME NEW doc \in Documents, NEW f \in Range(Listed(doc))
    PROVE  f.url.key \notin Key
<1>1. PICK p \in Places(doc) : f = Listed(doc)[p]
  BY InRange DEF Listed
<1>2. f.url \in PublicUrl
  BY <1>1, FilesAssumption, ListedFeed
<1> QED
  BY <1>2, CatalogAssumption DEF PublicUrl

-----------------------------------------------------------------------------
(* The overlay. *)

(* No overlay is one that says nothing.                                    *)
LEMMA OverlayType == \A ov \in Overlays \union {NoOverlay} : ov \in Overlay
<1>1. NoOverlay \in Overlay
  BY DEF NoOverlay, Overlay
<1> QED
  BY <1>1, FilesAssumption

(* The places of the document and of the overlay do not meet.              *)
LEMMA AddedFeed ==
    ASSUME NEW doc \in Document, NEW ov \in Overlay,
           NEW p \in DOMAIN Added(Listed(doc), ov.feeds)
    PROVE  LET a   == Added(Listed(doc), ov.feeds)[p]
               own == ov.feeds[p[2]]
           IN  /\ \E n, u, c, t, d : a = Feed(n, u, c, t, d)
               /\ p[1] # 0 => p \in Places(doc) /\ a = Listed(doc)[p]
               /\ p[1] = 0 => /\ p[2] \in DOMAIN ov.feeds /\ p = <<0, p[2]>>
                              /\ a.name = own.name /\ a.tier = own.tier
                              /\ a.disabled = own.off
<1> DEFINE a   == Added(Listed(doc), ov.feeds)[p]
           own == ov.feeds[p[2]]
<1>1. p \in Places(doc) \union ({0} \X DOMAIN ov.feeds)
  BY DEF Added, Listed
<1>2. CASE p[1] # 0
  <2>1. p \in Places(doc) /\ a = Listed(doc)[p]
    BY <1>1, <1>2 DEF Added, Listed
  <2>2. \E n, u, c, t, d : a = Feed(n, u, c, t, d)
    BY <2>1, ListedFeed
  <2> QED
    BY <1>2, <2>1, <2>2
<1>3. CASE p[1] = 0
  <2>1. p \notin Places(doc)
    <3>1. doc.items \in Seq(Item)
      BY DEF Document
    <3>2. \A i \in DOMAIN doc.items : i # 0
      BY <3>1
    <3> QED
      BY <1>3, <3>2, PlaceIs
  <2>2. p[2] \in DOMAIN ov.feeds /\ p = <<0, p[2]>>
    BY <1>1, <2>1
  <2>3. a = Feed(own.name, own.url, own.cat, own.tier, own.off)
    BY <1>1, <1>3 DEF Added, Listed
  <2>4. a.name = own.name /\ a.tier = own.tier /\ a.disabled = own.off
    BY <2>3 DEF Feed
  <2> QED
    BY <1>3, <2>2, <2>3, <2>4
<1> QED
  BY <1>2, <1>3

(* What the disables and the keys make of a feed, and the mark.            *)
Dressed(a, ov) ==
    LET f == Filled([a EXCEPT !.disabled = @ \/ a.name \in ov.disable], ov.keys)
    IN  [f EXCEPT !.requiresKey = f.url.key = Hole]

(* The overlay changes switches and keys, and nothing else.                *)
LEMMA DressedFeed ==
    ASSUME NEW a, NEW ov, NEW n, NEW u, NEW c, NEW t, NEW d,
           a = Feed(n, u, c, t, d)
    PROVE  LET f == Dressed(a, ov)
           IN  /\ f.name = a.name /\ f.cat = a.cat /\ f.tier = a.tier
               /\ f.disabled = (a.disabled \/ a.name \in ov.disable)
               /\ f.requiresKey = (f.url.key = Hole)
<1> DEFINE e   == a.disabled \/ a.name \in ov.disable
           off == [a EXCEPT !.disabled = e]
           f   == Filled(off, ov.keys)
           k   == f.url.key = Hole
<1>1. a.name = n /\ a.cat = c /\ a.tier = t
  BY DEF Feed
<1>2. Dressed(a, ov) = [f EXCEPT !.requiresKey = k]
  BY DEF Dressed
<1> HIDE DEF k, e
<1>3. PICK o : o = [a EXCEPT !.disabled = e]
  OBVIOUS
<1>4. o = Feed(n, u, c, t, e)
  BY <1>3 DEF Feed
<1>5. f = Filled(o, ov.keys)
  BY <1>3
<1> HIDE DEF off, f
<1>6. PICK v : f = [o EXCEPT !.url.key = v]
  BY <1>5 DEF Filled
<1>7. f = Feed(n, [u EXCEPT !.key = v], c, t, e)
  BY <1>4, <1>6 DEF Feed
<1>8. PICK w : f = Feed(n, w, c, t, e)
  BY <1>7
<1>9. PICK g : g = [f EXCEPT !.requiresKey = k]
  OBVIOUS
<1>10. /\ g.name = n /\ g.cat = c /\ g.tier = t /\ g.disabled = e
       /\ g.requiresKey = k /\ g.url = f.url
  BY <1>8, <1>9 DEF Feed
<1> QED
  BY <1>1, <1>2, <1>9, <1>10 DEF k, e

(* A loaded feed is one of the document or of the overlay, dressed.        *)
LEMMA LoadedFeed ==
    ASSUME CatalogInv, NEW f \in feeds
    PROVE  /\ status = "loaded" /\ vendored \in Document /\ overlay \in Overlay
           /\ LET all == Added(Listed(vendored), overlay.feeds)
              IN  /\ NamesDiffer(all)
                  /\ \E p \in DOMAIN all :
                        LET a == all[p]
                        IN  /\ f = Dressed(a, overlay)
                            /\ f.name = a.name /\ f.cat = a.cat /\ f.tier = a.tier
                            /\ f.disabled = (a.disabled \/ a.name \in overlay.disable)
                            /\ f.requiresKey = (f.url.key = Hole)
<1> DEFINE all == Added(Listed(vendored), overlay.feeds)
<1>1. status = "loaded" /\ vendored \in Document /\ overlay \in Overlay
  BY FilesAssumption, OverlayType DEF CatalogInv, Given
<1>2. NamesDiffer(all)
  BY <1>1 DEF CatalogInv, Applies, Addable
<1>3. f \in Marked(Overlaid(Listed(vendored), overlay))
  BY <1>1 DEF CatalogInv, Loaded
<1>4. PICK a \in Range(all) : f = Dressed(a, overlay)
  BY <1>3 DEF Marked, Overlaid, Dressed
<1>5. PICK p \in DOMAIN all : a = all[p]
  BY <1>4, InRange
<1>6. \E n, u, c, t, d : a = Feed(n, u, c, t, d)
  BY <1>1, <1>5, AddedFeed
<1>7. /\ f.name = a.name /\ f.cat = a.cat /\ f.tier = a.tier
      /\ f.disabled = (a.disabled \/ a.name \in overlay.disable)
      /\ f.requiresKey = (f.url.key = Hole)
  BY <1>4, <1>6, DressedFeed
<1> QED
  BY <1>1, <1>2, <1>4, <1>5, <1>7

-----------------------------------------------------------------------------
(* What switches a feed off, and what its tier is, told from the files.    *)

(* A place in the list with the name of another is that other.             *)
LEMMA SwitchedOffIsDisabled ==
    ASSUME CatalogInv, NEW f \in feeds
    PROVE  SwitchedOff(f.name) <=> f.disabled
<1> DEFINE all == Added(Listed(vendored), overlay.feeds)
<1>1. vendored \in Document /\ overlay \in Overlay /\ NamesDiffer(all)
  BY LoadedFeed
<1>2. PICK p \in DOMAIN all :
          /\ f.name = all[p].name
          /\ f.disabled = (all[p].disabled \/ all[p].name \in overlay.disable)
  BY LoadedFeed
<1>3. DOMAIN all = Places(vendored) \union ({0} \X DOMAIN overlay.feeds)
  BY DEF Added, Listed
<1>4. \A q \in DOMAIN all : all[q].name = f.name => q = p
  BY <1>1, <1>2 DEF NamesDiffer
<1>5. ASSUME SwitchedOff(f.name), f.name \notin overlay.disable
      PROVE  all[p].disabled
  <2>1. CASE \E i \in DOMAIN overlay.feeds :
                 overlay.feeds[i].name = f.name /\ overlay.feeds[i].off
    <3>1. PICK i \in DOMAIN overlay.feeds :
              overlay.feeds[i].name = f.name /\ overlay.feeds[i].off
      BY <2>1
    <3> DEFINE q == <<0, i>>
    <3>2. q \in DOMAIN all /\ q[1] = 0 /\ q[2] = i
      BY <1>3
    <3> HIDE DEF q
    <3>3. all[q].name = f.name /\ all[q].disabled = overlay.feeds[i].off
      BY <1>1, <3>1, <3>2, AddedFeed
    <3> QED
      BY <1>4, <3>1, <3>2, <3>3
  <2>2. CASE \E i \in DOMAIN vendored.items :
                 LET item == vendored.items[i]
                 IN  Declares(item, f.name) /\ (item.off \/ item.cat \in vendored.off)
    <3>1. PICK i \in DOMAIN vendored.items :
              LET item == vendored.items[i]
              IN  Declares(item, f.name) /\ (item.off \/ item.cat \in vendored.off)
      BY <2>2
    <3> DEFINE item == vendored.items[i]
    <3>2. item \in Item
      BY <1>1 DEF Document
    <3>3. item.alternates \in Seq(Link)
      BY <3>2 DEF Item
    <3>4. PICK j \in 0 .. Len(item.alternates) :
              f.name = IF j = 0 THEN item.name ELSE item.alternates[j].name
      BY <3>1, <3>3 DEF Declares
    <3> DEFINE q == <<i, j>>
    <3>5. q \in Places(vendored) /\ q[1] = i /\ q[2] = j
      BY PlaceOf
    <3> HIDE DEF q
    <3>6. q[1] # 0
      BY <1>1, <3>5, ListedFeed
    <3>7. q \in DOMAIN all /\ all[q] = Listed(vendored)[q]
      BY <1>1, <1>3, <3>5, <3>6, AddedFeed
    <3>8. /\ all[q].name = f.name
          /\ all[q].disabled = (item.cat \in vendored.off \/ item.off)
      BY <1>1, <3>4, <3>5, <3>7, ListedFeed
    <3> QED
      BY <1>4, <3>1, <3>7, <3>8
  <2> QED
    BY <1>5, <2>1, <2>2 DEF SwitchedOff
<1>6. ASSUME all[p].disabled PROVE SwitchedOff(f.name)
  <2>1. CASE p[1] = 0
    <3>1. /\ p[2] \in DOMAIN overlay.feeds
          /\ overlay.feeds[p[2]].name = f.name /\ overlay.feeds[p[2]].off
      BY <1>1, <1>2, <1>6, <2>1, AddedFeed
    <3> QED
      BY <3>1 DEF SwitchedOff
  <2>2. CASE p[1] # 0
    <3> DEFINE item == vendored.items[p[1]]
    <3>1. p \in Places(vendored) /\ all[p] = Listed(vendored)[p]
      BY <1>1, <2>2, AddedFeed
    <3>2. /\ item \in Item
          /\ f.name = IF p[2] = 0 THEN item.name ELSE item.alternates[p[2]].name
          /\ all[p].disabled = (item.cat \in vendored.off \/ item.off)
      BY <1>1, <1>2, <3>1, ListedFeed
    <3>3. p[1] \in DOMAIN vendored.items /\ p[2] \in 0 .. Len(item.alternates)
      BY <3>1, PlaceIs
    <3>4. item.alternates \in Seq(Link)
      BY <3>2 DEF Item
    <3>5. Declares(item, f.name)
      BY <3>2, <3>3, <3>4 DEF Declares
    <3> QED
      BY <1>6, <3>2, <3>3, <3>5 DEF SwitchedOff
  <2> QED
    BY <2>1, <2>2
<1>7. f.name \in overlay.disable => SwitchedOff(f.name)
  BY DEF SwitchedOff
<1> HIDE DEF all
<1> QED
  BY <1>2, <1>5, <1>6, <1>7

(* The tier of a feed is the one it states or that of its category, and a  *)
(* reference means it in any case.                                         *)
LEMMA TierIsStated ==
    ASSUME CatalogInv, NEW f \in feeds, NEW ref
    PROVE  TierStated(f, ref) <=> EqualFold(ref, f.tier)
<1> DEFINE all == Added(Listed(vendored), overlay.feeds)
<1>1. vendored \in Document /\ overlay \in Overlay /\ NamesDiffer(all)
  BY LoadedFeed
<1>2. PICK p \in DOMAIN all :
          f.name = all[p].name /\ f.cat = all[p].cat /\ f.tier = all[p].tier
  BY LoadedFeed
<1>3. ASSUME NEW i \in DOMAIN overlay.feeds, overlay.feeds[i].name = f.name
      PROVE  p[1] = 0 /\ p[2] = i
  <2> DEFINE q == <<0, i>>
  <2>1. q \in DOMAIN all /\ q[1] = 0 /\ q[2] = i
    BY DEF Added, Listed
  <2> HIDE DEF q
  <2>2. all[q].name = f.name
    BY <1>1, <1>3, <2>1, AddedFeed
  <2>3. q = p
    BY <1>1, <1>2, <2>1, <2>2 DEF NamesDiffer
  <2> QED
    BY <2>1, <2>3
<1>4. CASE p[1] = 0
  <2>1. /\ p[2] \in DOMAIN overlay.feeds
        /\ overlay.feeds[p[2]].name = f.name
        /\ overlay.feeds[p[2]].tier = f.tier
    BY <1>1, <1>2, <1>4, AddedFeed
  <2> QED
    BY <1>3, <2>1 DEF TierStated
<1>5. CASE p[1] # 0
  <2>1. ~ \E i \in DOMAIN overlay.feeds : overlay.feeds[i].name = f.name
    BY <1>3, <1>5
  <2>2. p \in Places(vendored) /\ all[p] = Listed(vendored)[p]
    BY <1>1, <1>5, AddedFeed
  <2>3. f.tier = TierOf[f.cat]
    BY <1>1, <1>2, <2>2, ListedFeed
  <2> QED
    BY <2>1, <2>3 DEF TierStated
<1> QED
  BY <1>4, <1>5

-----------------------------------------------------------------------------
(* The theorems. *)

(* "Name uniquely identifies the feed across catalog and overlay"          *)
(* (types.go:16), whatever the document and the overlay say.               *)
THEOREM NamesStayUnique == Spec => []NamesAreUnique
<1>1. ASSUME CatalogInv PROVE NamesAreUnique
  <2> SUFFICES ASSUME NEW f \in feeds, NEW g \in feeds, f.name = g.name
               PROVE  f = g
    BY DEF NamesAreUnique
  <2> DEFINE all == Added(Listed(vendored), overlay.feeds)
  <2>1. NamesDiffer(all)
    BY <1>1, LoadedFeed
  <2>2. PICK p \in DOMAIN all : f = Dressed(all[p], overlay) /\ f.name = all[p].name
    BY <1>1, LoadedFeed
  <2>3. PICK q \in DOMAIN all : g = Dressed(all[q], overlay) /\ g.name = all[q].name
    BY <1>1, LoadedFeed
  <2>4. p = q
    BY <2>1, <2>2, <2>3 DEF NamesDiffer
  <2> QED
    BY <2>2, <2>3, <2>4
<1> QED
  BY <1>1, Invariance, PTL

(* An alias gets every feed it refers to, by name, category or tier in any *)
(* case, that nothing in the files switches off and whose key is there,    *)
(* and no other (select.go:8-14).                                          *)
THEOREM SelectionIsExact == Spec => []SelectedExactly
<1>1. ASSUME CatalogInv, answer.call = "select"
      PROVE  answer.feeds = {f \in feeds : /\ Wanted(f, answer.refs)
                                           /\ ~SwitchedOff(f.name)
                                           /\ f.url.key # Hole}
  <2>1. answer = Selection /\ answer.refs \subseteq Text
    BY <1>1 DEF CatalogInv, NoAnswer, Comparison
  <2>2. answer.feeds = Select(feeds, answer.refs)
    BY <2>1 DEF Selection
  <2>3. ASSUME NEW f \in feeds
        PROVE  Wanted(f, answer.refs) <=> \E ref \in answer.refs : Matches(f, ref)
    <3>1. \A ref : TierStated(f, ref) <=> EqualFold(ref, f.tier)
      BY <1>1, TierIsStated
    <3>2. ASSUME NEW ref \in answer.refs, ref # Blank, EqualFold(ref, f.tier)
          PROVE  f.tier # Blank
      BY <2>1, <3>2, TextAssumption DEF EqualFold
    <3>3. ASSUME NEW ref \in answer.refs
          PROVE  Matches(f, ref) <=>
                    /\ ref # Blank
                    /\ \/ EqualFold(ref, f.name) \/ EqualFold(ref, f.cat)
                       \/ TierStated(f, ref)
      BY <3>1, <3>2 DEF Matches
    <3> QED
      BY <3>3 DEF Wanted
  <2>4. ASSUME NEW f \in feeds
        PROVE  /\ f.disabled <=> SwitchedOff(f.name)
               /\ f.requiresKey <=> f.url.key = Hole
    BY <1>1, LoadedFeed, SwitchedOffIsDisabled
  <2> QED
    BY <2>2, <2>3, <2>4 DEF Select
<1> QED
  BY <1>1, Invariance, PTL DEF SelectedExactly

(* No alias loses its last feed without a warning of each of its           *)
(* references (root.go:146).                                               *)
THEOREM LossIsWarnedOf == Spec => []NoSilentLoss
<1>1. ASSUME CatalogInv, answer.call = "select", answer.feeds = {}
      PROVE  answer.refs \subseteq answer.warnings
  <2>1. answer = Selection
    BY <1>1 DEF CatalogInv, NoAnswer, Comparison
  <2>2. /\ answer.feeds = Select(feeds, answer.refs)
        /\ answer.warnings = Warnings(feeds, answer.refs)
    BY <2>1 DEF Selection
  <2> QED
    BY <1>1, <2>2 DEF Warnings, Select
<1> QED
  BY <1>1, Invariance, PTL DEF NoSilentLoss

(* "The overlay never participates" (sync.go:35): the difference takes the *)
(* vendored document to the one upstream, is empty only when there is      *)
(* none, and names no secret.                                              *)
THEOREM ComparisonIsExact == Spec => []DiffIsExact
<1>1. ASSUME CatalogInv, answer.call = "sync", answer.exit # 1
      PROVE  DiffIsExact
  <2> DEFINE d   == answer.diff
             old == Range(Listed(vendored))
             new == Range(Listed(upstream))
             gone == d.removed \union {p[1] : p \in d.changed}
             come == d.added \union {p[2] : p \in d.changed}
  <2>1. Parses(upstream) /\ answer = Comparison
    <3>1. answer # NoAnswer
      BY <1>1 DEF NoAnswer
    <3>2. answer # Selection
      BY <1>1 DEF Selection
    <3>3. answer # [call |-> "sync", exit |-> 1]
      BY <1>1
    <3> QED
      BY <1>1, <3>1, <3>2, <3>3 DEF CatalogInv
  <2>2. status = "loaded"
    <3>1. answer # NoAnswer
      BY <1>1 DEF NoAnswer
    <3> QED
      BY <1>1, <3>1 DEF CatalogInv, Given
  <2>3. Parses(vendored) /\ kept = old
    BY <1>1, <2>2 DEF CatalogInv, Loaded
  <2>4. vendored \in Documents /\ upstream \in Documents
    BY <1>1 DEF CatalogInv, Given
  <2>5. d = Diff(old, new) /\ answer.exit = IF Empty(d) THEN 0 ELSE 3
    BY <2>1, <2>3 DEF Comparison
  <2>6. \A f \in old, g \in old : f.name = g.name => f = g
    BY <2>3, OneOfName DEF Parses
  <2>7. \A f \in new, g \in new : f.name = g.name => f = g
    BY <2>1, OneOfName DEF Parses
  <2>8. \A f \in old, g \in new : f.name = g.name => (Differ(f, g) <=> f # g)
    BY <2>4, SameUnlessDiffer
  <2>9. \A f \in old \union new : f.url.key \notin Key
    BY <2>4, NoSecretListed
  <2> HIDE DEF d, old, new
  <2>10. /\ d.added = {f \in new : \A g \in old : g.name # f.name}
         /\ d.removed = {f \in old : \A g \in new : g.name # f.name}
         /\ d.changed = {p \in old \X new : p[1].name = p[2].name /\ Differ(p[1], p[2])}
    BY <2>5 DEF Diff
  <2>11. /\ {p[1] : p \in d.changed} =
                {f \in old : \E g \in new : f.name = g.name /\ f # g}
         /\ {p[2] : p \in d.changed} =
                {g \in new : \E f \in old : f.name = g.name /\ f # g}
    <3>1. ASSUME NEW f \in old, NEW g \in new
          PROVE  <<f, g>> \in d.changed <=> f.name = g.name /\ f # g
      BY <2>8, <2>10
    <3>2. ASSUME NEW p \in d.changed
          PROVE  /\ p[1] \in old /\ p[2] \in new
                 /\ p[1].name = p[2].name /\ p[1] # p[2]
      BY <2>8, <2>10
    <3>3. ASSUME NEW f \in old, NEW g \in new, f.name = g.name, f # g
          PROVE  \E p \in d.changed : p[1] = f /\ p[2] = g
      BY <3>1, <3>3
    <3> QED
      BY <3>2, <3>3
  <2>12. gone = old \ new
    BY <2>7, <2>10, <2>11
  <2>13. come = new \ old
    BY <2>6, <2>10, <2>11
  <2>14. (old \ gone) \union come = new /\ gone \subseteq old
    BY <2>12, <2>13
  <2>15. answer.exit = 0 <=> old = new
    <3>1. Empty(d) <=> gone = {} /\ come = {}
      BY DEF Empty
    <3>2. gone = {} /\ come = {} <=> old = new
      BY <2>12, <2>13
    <3>3. answer.exit = 0 <=> Empty(d)
      BY <2>5
    <3> QED
      BY <3>1, <3>2, <3>3
  <2>16. \A f \in d.added \union d.removed
                    \union UNION {{p[1], p[2]} : p \in d.changed} :
            f.url.key \notin Key
    BY <2>9, <2>10
  <2> QED
    BY <2>14, <2>15, <2>16 DEF DiffIsExact, d, old, new
<1> QED
  BY <1>1, Invariance, PTL DEF DiffIsExact
=============================================================================
