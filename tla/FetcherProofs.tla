---------------------------- MODULE FetcherProofs ----------------------------
(***************************************************************************)
(* What the drawing of a line guarantees for every width of the screen and *)
(* of the map, every number of sprites and whatever software writes.       *)
(*                                                                         *)
(* A tick is three steps of the fetchers and one of the LCD, each a choice *)
(* of a few changes of the sixteen fields of the drawing state.  Lemmas on *)
(* the steps (...Cases) say which fields a change sets and that it leaves  *)
(* the others alone; the rest of the module uses nothing else of them.     *)
(*                                                                         *)
(* That a line fits rests on a bound for the ticks that it may still take, *)
(* which every tick makes smaller (TicksLeft, TickCosts).                  *)
(*                                                                         *)
(* What a line shows rests on PictureInv: which column each pixel of the   *)
(* background FIFO has, that each pixel of the sprite FIFO belongs to the  *)
(* first of the sprites fetched so far that is opaque at its place, and    *)
(* that the next sprite is still in time.                                  *)
(***************************************************************************)
EXTENDS Fetcher, SequenceTheorems, FiniteSetTheorems, TLAPS

-----------------------------------------------------------------------------
(* The scan. *)

LEMMA SeqMade ==
  ASSUME NEW n \in Nat, NEW S, NEW q \in [1..n -> S]
  PROVE  q \in Seq(S) /\ Len(q) = n
<1>1. q \in Seq(S)
  BY SeqDef
<1>2. 1..Len(q) = 1..n /\ Len(q) \in Nat
  BY <1>1, LenProperties
<1> QED
  BY <1>1, <1>2

LEMMA SpriteFields ==
  ASSUME NEW s \in Sprite
  PROVE  /\ s.x \in Int /\ s.x >= 0
         /\ s.lo \in Pattern /\ s.hi \in Pattern /\ s.behind \in BOOLEAN
BY DEF Sprite

LEMMA FewerElements ==
  ASSUME NEW T, IsFiniteSet(T), NEW S \in SUBSET T, NEW x \in T, x \notin S
  PROVE  /\ IsFiniteSet(S) /\ Cardinality(S) \in Nat /\ Cardinality(T) \in Nat
         /\ Cardinality(S) < Cardinality(T)
<1>1. IsFiniteSet(S) /\ Cardinality(S) <= Cardinality(T) /\ Cardinality(S) # Cardinality(T)
  BY FS_Subset
<1>2. Cardinality(S) \in Nat /\ Cardinality(T) \in Nat
  BY <1>1, FS_CardinalityType
<1> QED
  BY <1>1, <1>2

\* The list of a line: sprites of OAM, at most so many, in the order in which
\* they are drawn.
IsList(o, b) ==
  /\ b \in Seq(DOMAIN o)
  /\ Len(b) <= LineSprites
  /\ \A m, n \in 1..Len(b) : m < n => Before(o, b[m], b[n])

LEMMA ScanLists ==
  ASSUME NEW o \in [1..Sprites -> Sprite], NEW on \in SUBSET (1..Sprites)
  PROVE  IsList(o, Scanned(o, on))
<1> DEFINE found == {i \in on : Cardinality({j \in on : j < i}) < LineSprites}
           places == 1..Cardinality(found)
           Sorted(b) == \A m, n \in places : m < n => Before(o, b[m], b[n])
<1>0. \A i \in on : i \in Int
  OBVIOUS
<1>1. IsFiniteSet(on) /\ IsFiniteSet(found)
  <2>1. IsFiniteSet(1..Sprites)
    BY FS_Interval, FetcherAssumption DEF FetcherAssumption
  <2> QED
    BY <2>1, FS_Subset
<1>2. Cardinality(found) \in Nat /\ \A i \in found : i \in on /\ i \in Int /\ i \in 1..Sprites
  BY <1>1, FS_CardinalityType
<1>3. Cardinality(found) <= LineSprites
  <2> DEFINE below == [i \in found |-> Cardinality({j \in on : j < i})]
  <2>1. ASSUME NEW i \in found, NEW k \in found, i < k
        PROVE  below[i] < below[k] /\ below[i] \in Nat /\ below[k] \in Nat
    <3>1. IsFiniteSet({j \in on : j < k})
      BY <1>1, FS_Subset
    <3>2. {j \in on : j < i} \in SUBSET {j \in on : j < k}
      <4>1. \A x \in on : x < i => x < k
        <5> HIDE DEF found
        <5>1. i \in Int /\ k \in Int /\ i < k
          BY <1>2, <2>1
        <5> QED
          BY <1>0, <5>1
      <4> QED
        BY <4>1, Zenon
    <3>3. i \in {j \in on : j < k} /\ i \notin {j \in on : j < i}
      BY <1>2, <2>1
    <3> QED
      BY <3>1, <3>2, <3>3, FewerElements
  <2>2. below \in [found -> 0..(LineSprites - 1)]
    <3> SUFFICES ASSUME NEW i \in found
                 PROVE  Cardinality({j \in on : j < i}) \in 0..(LineSprites - 1)
      OBVIOUS
    <3>1. IsFiniteSet({j \in on : j < i})
      BY <1>1, FS_Subset
    <3>2. Cardinality({j \in on : j < i}) \in Nat
      BY <3>1, FS_CardinalityType
    <3> QED
      BY <3>2, FetcherAssumption DEF FetcherAssumption
  <2> HIDE DEF below
  <2>3. \A i, k \in found : i # k => below[i] # below[k]
    <3> SUFFICES ASSUME NEW i \in found, NEW k \in found, i # k PROVE below[i] # below[k]
      OBVIOUS
    <3>1. i < k \/ k < i
      BY <1>2
    <3> QED
      BY <2>1, <3>1
  <2>4. below \in Injection(found, 0..(LineSprites - 1))
    BY <2>2, <2>3 DEF Injection, IsInjective
  <2>5. IsFiniteSet(0..(LineSprites - 1)) /\ Cardinality(0..(LineSprites - 1)) = LineSprites
    BY FS_Interval, FetcherAssumption DEF FetcherAssumption
  <2> QED
    BY <2>4, <2>5, FS_Injection
<1>4. \E b \in [places -> found] : Sorted(b)
  <2> HIDE DEF found
  <2> DEFINE Ahead(i) == {j \in found : Before(o, j, i)}
             rank == [i \in found |-> Cardinality(Ahead(i)) + 1]
  <2>1. \A i \in found : o[i].x \in Int
    <3>1. \A i \in found : o[i] \in Sprite
      BY <1>2
    <3> QED
      BY <3>1, SpriteFields
  <2>2. ASSUME NEW i \in found, NEW k \in found, Before(o, i, k)
        PROVE  rank[i] < rank[k]
    <3>1. IsFiniteSet(Ahead(k))
      BY <1>1, FS_Subset
    <3>2. Ahead(i) \in SUBSET Ahead(k)
      BY <1>2, <2>1, <2>2 DEF Before
    <3>3. i \in Ahead(k) /\ i \notin Ahead(i)
      BY <1>2, <2>1, <2>2 DEF Before
    <3> HIDE DEF Ahead
    <3>4. Cardinality(Ahead(i)) \in Nat /\ Cardinality(Ahead(k)) \in Nat
          /\ Cardinality(Ahead(i)) < Cardinality(Ahead(k))
      BY <3>1, <3>2, <3>3, FewerElements
    <3> QED
      BY <3>4
  <2>3. rank \in [found -> places]
    <3> SUFFICES ASSUME NEW i \in found PROVE Cardinality(Ahead(i)) + 1 \in places
      OBVIOUS
    <3>1. Ahead(i) \in SUBSET found /\ i \notin Ahead(i)
      BY <1>2, <2>1 DEF Before
    <3> HIDE DEF Ahead
    <3>2. Cardinality(Ahead(i)) \in Nat /\ Cardinality(Ahead(i)) < Cardinality(found)
      BY <1>1, <3>1, FewerElements
    <3> QED
      BY <1>2, <3>2
  <2>4. \A i, k \in found : i # k => Before(o, i, k) \/ Before(o, k, i)
    BY <1>2, <2>1 DEF Before
  <2> HIDE DEF rank, places
  <2>5. \A i, k \in found : i # k => rank[i] # rank[k]
    <3>1. \A i \in found : rank[i] \in Int
      BY <2>3 DEF places
    <3> QED
      BY <2>2, <2>4, <3>1
  <2>6. rank \in Injection(found, places)
    BY <2>3, <2>5 DEF Injection, IsInjective
  <2>7. IsFiniteSet(places) /\ Cardinality(places) = Cardinality(found)
    BY <1>2, FS_Interval DEF places
  <2>8. rank \in Surjection(found, places)
    BY <2>6, <2>7, FS_Injection
  <2> DEFINE b == [k \in places |-> CHOOSE i \in found : rank[i] = k]
  <2>9. \A k \in places : b[k] \in found /\ rank[b[k]] = k
    BY <2>8 DEF Surjection
  <2>10. b \in [places -> found]
    BY <2>9
  <2> HIDE DEF b
  <2>11. ASSUME NEW m \in places, NEW n \in places, m < n PROVE Before(o, b[m], b[n])
    <3>1. m \in Int /\ n \in Int
      BY DEF places
    <3>2. b[m] # b[n] /\ ~(rank[b[n]] < rank[b[m]])
      BY <2>9, <2>11, <3>1
    <3> QED
      BY <2>2, <2>4, <2>9, <3>2
  <2> QED
    BY <2>10, <2>11
<1>5. Scanned(o, on) = CHOOSE b \in [places -> found] : Sorted(b)
  BY Zenon DEF Scanned
<1> HIDE DEF Sorted, found
<1>6. Scanned(o, on) \in [places -> found] /\ Sorted(Scanned(o, on))
  BY <1>4, <1>5
<1>7. Scanned(o, on) \in Seq(DOMAIN o) /\ Len(Scanned(o, on)) = Cardinality(found)
  <2>1. found \subseteq DOMAIN o
    BY <1>2
  <2>2. Scanned(o, on) \in [1..Cardinality(found) -> DOMAIN o]
    BY <1>6, <2>1
  <2> QED
    BY <1>2, <2>2, SeqMade
<1> QED
  BY <1>3, <1>6, <1>7, Zenon DEF IsList, Sorted

-----------------------------------------------------------------------------
(* The steps of a tick, by the fields they change. *)

Names == {
  "bg_wnd_fifo", "sprite_fifo", "bg_wnd_fetch_step", "sprite_fetch_step", "fetch_x", "tile",
  "is_first_fetch", "sprite_fetch_active", "sprite_index", "current_sprite", "lo", "hi",
  "framebuffer_x", "processed_pixels", "reached_window_x", "window_line_counter"}

\* n is q but for some fields.
But(fields, q, n) == DOMAIN n = Names /\ \A x \in Names \ fields : n[x] = q[x]

Begins(q) ==
  /\ q.sprite_index < Len(sprite_buffer)
  /\ obj_enable
  /\ ~q.sprite_fetch_active
  /\ oam[sprite_buffer[q.sprite_index + 1]].x <= q.framebuffer_x + 8

Begun(q, n) ==
  /\ But({"current_sprite", "sprite_fetch_active", "sprite_index", "sprite_fetch_step",
          "bg_wnd_fetch_step"}, q, n)
  /\ n.current_sprite = sprite_buffer[q.sprite_index + 1]
  /\ n.sprite_fetch_active = TRUE
  /\ n.sprite_index = q.sprite_index + 1
  /\ n.sprite_fetch_step = 0
  /\ n.bg_wnd_fetch_step = 0

LEMMA BeginCases ==
  ASSUME NEW q, DOMAIN q = Names
  PROVE  \/ Begins(q) /\ Begun(q, BeginSprite(q))
         \/ ~Begins(q) /\ BeginSprite(q) = q
<1>1. CASE Begins(q)
  <2> DEFINE n == [q EXCEPT !.current_sprite = sprite_buffer[q.sprite_index + 1],
                            !.sprite_fetch_active = TRUE,
                            !.sprite_index = @ + 1,
                            !.sprite_fetch_step = 0,
                            !.bg_wnd_fetch_step = 0]
  <2>1. BeginSprite(q) = n
    BY <1>1, Zenon DEF BeginSprite, Begins
  <2>2. Begun(q, n)
    BY Zenon DEF Begun, But, Names
  <2> QED
    BY <1>1, <2>1, <2>2
<1>2. CASE ~Begins(q)
  BY <1>2, Zenon DEF BeginSprite, Begins
<1> QED
  BY <1>1, <1>2

\* A sprite fetch goes on, or puts its pixels into the FIFO.
SpriteRead(q, n) ==
  /\ But({"sprite_fetch_step", "lo", "hi"}, q, n)
  /\ n.sprite_fetch_step = q.sprite_fetch_step + 1
  /\ n.lo = IF q.sprite_fetch_step = 2 THEN oam[q.current_sprite].lo ELSE q.lo
  /\ n.hi = IF q.sprite_fetch_step = 4 THEN oam[q.current_sprite].hi ELSE q.hi

SpriteDone(q, n) ==
  /\ But({"sprite_fifo", "sprite_fetch_active", "sprite_fetch_step", "current_sprite",
          "lo", "hi"}, q, n)
  /\ n.sprite_fifo = Merged(q)
  /\ n.sprite_fetch_active = FALSE
  /\ n.sprite_fetch_step = 0
  /\ n.lo = {} /\ n.hi = {}

LEMMA SpriteTickCases ==
  ASSUME NEW q, DOMAIN q = Names
  PROVE  \/ ~q.sprite_fetch_active /\ SpriteTick(q) = q
         \/ q.sprite_fetch_active /\ q.sprite_fetch_step # 6 /\ SpriteRead(q, SpriteTick(q))
         \/ q.sprite_fetch_active /\ q.sprite_fetch_step = 6 /\ SpriteDone(q, SpriteTick(q))
<1> DEFINE m == [q EXCEPT !.sprite_fetch_step = @ + 1]
           m2 == [m EXCEPT !.lo = oam[q.current_sprite].lo]
           m4 == [m EXCEPT !.hi = oam[q.current_sprite].hi]
           m6 == [q EXCEPT !.sprite_fifo = Merged(q), !.sprite_fetch_active = FALSE,
                           !.sprite_fetch_step = 0, !.current_sprite = 0, !.lo = {}, !.hi = {}]
<1>1. CASE ~q.sprite_fetch_active
  BY <1>1, Zenon DEF SpriteTick
<1>2. CASE q.sprite_fetch_active
  <2>0. 2 # 4 /\ 2 # 6 /\ 4 # 6
    OBVIOUS
  <2>1. CASE q.sprite_fetch_step = 2
    <3>1. SpriteTick(q) = m2
      BY <1>2, <2>0, <2>1, Zenon DEF SpriteTick
    <3>2. SpriteRead(q, m2)
      BY <2>0, <2>1, Zenon DEF SpriteRead, But, Names
    <3> QED
      BY <1>2, <2>0, <2>1, <3>1, <3>2, Zenon
  <2>2. CASE q.sprite_fetch_step = 4
    <3>1. SpriteTick(q) = m4
      BY <1>2, <2>0, <2>2, Zenon DEF SpriteTick
    <3>2. SpriteRead(q, m4)
      BY <2>0, <2>2, Zenon DEF SpriteRead, But, Names
    <3> QED
      BY <1>2, <2>0, <2>2, <3>1, <3>2, Zenon
  <2>3. CASE q.sprite_fetch_step = 6
    <3>1. SpriteTick(q) = m6
      BY <1>2, <2>0, <2>3, Zenon DEF SpriteTick
    <3>2. SpriteDone(q, m6)
      BY Zenon DEF SpriteDone, But, Names
    <3> QED
      BY <1>2, <2>3, <3>1, <3>2, Zenon
  <2>4. CASE q.sprite_fetch_step # 2 /\ q.sprite_fetch_step # 4 /\ q.sprite_fetch_step # 6
    <3>1. SpriteTick(q) = m
      BY <1>2, <2>4, Zenon DEF SpriteTick
    <3>2. SpriteRead(q, m)
      BY <2>4, Zenon DEF SpriteRead, But, Names
    <3> QED
      BY <1>2, <2>4, <3>1, <3>2, Zenon
  <2> QED
    BY <2>1, <2>2, <2>3, <2>4
<1> QED
  BY <1>1, <1>2

\* What a tick of the background fetch does.
TileChosen(q, n) ==
  /\ q.bg_wnd_fetch_step = 0
  /\ But({"bg_wnd_fetch_step", "tile"}, q, n)
  /\ n.bg_wnd_fetch_step = 1
  /\ n.tile = TileAt(q)

FetchRepeated(q, n) ==
  /\ q.bg_wnd_fetch_step = 5 /\ q.is_first_fetch
  /\ But({"bg_wnd_fetch_step", "is_first_fetch"}, q, n)
  /\ n.bg_wnd_fetch_step = 0
  /\ n.is_first_fetch = FALSE

TilePushed(q, n) ==
  /\ q.bg_wnd_fetch_step = 6 /\ q.bg_wnd_fifo = <<>>
  /\ But({"bg_wnd_fetch_step", "bg_wnd_fifo", "tile", "fetch_x"}, q, n)
  /\ n.bg_wnd_fetch_step = 7
  /\ n.bg_wnd_fifo = TilePixels(q.tile)
  /\ n.tile = NoTile
  /\ n.fetch_x = q.fetch_x + 1

FetchGoesOn(q, n) ==
  /\ q.bg_wnd_fetch_step # 0
  /\ ~(q.bg_wnd_fetch_step = 5 /\ q.is_first_fetch)
  /\ ~(q.bg_wnd_fetch_step = 6 /\ q.bg_wnd_fifo = <<>>)
  /\ But({"bg_wnd_fetch_step"}, q, n)
  /\ n.bg_wnd_fetch_step = (q.bg_wnd_fetch_step + 1) % 8

LEMMA BgTickCases ==
  ASSUME NEW q, DOMAIN q = Names
  PROVE  \/ q.sprite_fetch_active /\ BgTick(q) = q
         \/ /\ ~q.sprite_fetch_active
            /\ \/ TileChosen(q, BgTick(q)) \/ FetchRepeated(q, BgTick(q))
               \/ TilePushed(q, BgTick(q)) \/ FetchGoesOn(q, BgTick(q))
<1> DEFINE s == q.bg_wnd_fetch_step
           m == [q EXCEPT !.bg_wnd_fetch_step = (@ + 1) % 8]
           m0 == [m EXCEPT !.tile = TileAt(q)]
           m5 == [m EXCEPT !.bg_wnd_fetch_step = 0, !.is_first_fetch = FALSE]
           m6 == [m EXCEPT !.bg_wnd_fifo = TilePixels(q.tile), !.tile = NoTile, !.fetch_x = @ + 1]
<1>1. CASE q.sprite_fetch_active
  BY <1>1, Zenon DEF BgTick
<1>2. CASE ~q.sprite_fetch_active
  <2>0. 0 # 5 /\ 0 # 6 /\ 5 # 6 /\ (0 + 1) % 8 = 1 /\ (6 + 1) % 8 = 7
    BY SMT
  <2>1. CASE s = 0
    <3>1. BgTick(q) = m0
      BY <1>2, <2>0, <2>1, Zenon DEF BgTick
    <3>2. TileChosen(q, m0)
      BY <2>0, <2>1, Zenon DEF TileChosen, But, Names
    <3> QED
      BY <1>2, <3>1, <3>2, Zenon
  <2>2. CASE s = 5 /\ q.is_first_fetch
    <3>1. BgTick(q) = m5
      BY <1>2, <2>0, <2>2, Zenon DEF BgTick
    <3>2. FetchRepeated(q, m5)
      BY <2>2, Zenon DEF FetchRepeated, But, Names
    <3> QED
      BY <1>2, <3>1, <3>2, Zenon
  <2>3. CASE s = 6 /\ q.bg_wnd_fifo = <<>>
    <3>1. BgTick(q) = m6
      BY <1>2, <2>0, <2>3, Zenon DEF BgTick
    <3>2. TilePushed(q, m6)
      BY <2>0, <2>3, Zenon DEF TilePushed, But, Names
    <3> QED
      BY <1>2, <3>1, <3>2, Zenon
  <2>4. CASE s # 0 /\ ~(s = 5 /\ q.is_first_fetch) /\ ~(s = 6 /\ q.bg_wnd_fifo = <<>>)
    <3>1. BgTick(q) = m
      BY <1>2, <2>4, Zenon DEF BgTick
    <3>2. FetchGoesOn(q, m)
      BY <2>4, Zenon DEF FetchGoesOn, But, Names
    <3> QED
      BY <1>2, <3>1, <3>2, Zenon
  <2> QED
    BY <2>1, <2>2, <2>3, <2>4, Zenon
<1> QED
  BY <1>1, <1>2

\* A pixel leaves the FIFO: discarded, drawn, or drawn just left of the window.
PixelDiscarded(q, n) ==
  /\ Discards(q)
  /\ But({"bg_wnd_fifo", "processed_pixels"}, q, n)
  /\ n.bg_wnd_fifo = Tail(q.bg_wnd_fifo)
  /\ n.processed_pixels = q.processed_pixels + 1

Drawing == {"bg_wnd_fifo", "processed_pixels", "sprite_fifo", "framebuffer_x"}

PixelDrawn(q, n) ==
  /\ Draws(q)
  /\ n.processed_pixels = q.processed_pixels + 1
  /\ n.framebuffer_x = q.framebuffer_x + 1
  /\ n.sprite_fifo = Popped(q.sprite_fifo)
  /\ \/ /\ ~(/\ ~q.reached_window_x
             /\ wnd_enable /\ reached_window_y
             /\ q.framebuffer_x + 1 >= wx - 7)
        /\ But(Drawing, q, n)
        /\ n.bg_wnd_fifo = Tail(q.bg_wnd_fifo)
     \/ /\ ~q.reached_window_x
        /\ wnd_enable /\ reached_window_y
        /\ q.framebuffer_x + 1 >= wx - 7
        /\ But(Drawing \union {"reached_window_x", "bg_wnd_fetch_step", "fetch_x"}, q, n)
        /\ n.bg_wnd_fifo = <<>>
        /\ n.reached_window_x = TRUE
        /\ n.bg_wnd_fetch_step = 0
        /\ n.fetch_x = 0

LEMMA PushedCases ==
  ASSUME NEW q, DOMAIN q = Names
  PROVE  \/ ~Pushes(q) /\ Pushed(q) = q
         \/ PixelDiscarded(q, Pushed(q))
         \/ PixelDrawn(q, Pushed(q))
<1> DEFINE n == [q EXCEPT !.bg_wnd_fifo = Popped(@), !.processed_pixels = @ + 1]
           m == [n EXCEPT !.sprite_fifo = Popped(@), !.framebuffer_x = @ + 1]
           w == [m EXCEPT !.reached_window_x = TRUE, !.bg_wnd_fetch_step = 0, !.fetch_x = 0,
                          !.bg_wnd_fifo = <<>>]
<1>1. CASE ~Pushes(q)
  BY <1>1, Zenon DEF Pushed
<1>2. CASE Pushes(q)
  <2>0. Popped(q.bg_wnd_fifo) = Tail(q.bg_wnd_fifo)
    BY <1>2, Zenon DEF Pushes, Popped
  <2>1. CASE Discards(q)
    <3>1. Pushed(q) = n
      BY <1>2, <2>1, Zenon DEF Pushed
    <3>2. PixelDiscarded(q, n)
      BY <2>0, <2>1, Zenon DEF PixelDiscarded, But, Names
    <3> QED
      BY <3>1, <3>2, Zenon
  <2>2. CASE ~Discards(q)
    <3>0. Draws(q)
      BY <1>2, <2>2, Zenon DEF Draws
    <3> DEFINE window == /\ ~q.reached_window_x
                         /\ wnd_enable /\ reached_window_y
                         /\ q.framebuffer_x + 1 >= wx - 7
    <3>1. m.framebuffer_x = q.framebuffer_x + 1
      BY Zenon DEF Names
    <3>2. Pushed(q) = IF window THEN w ELSE m
      BY <1>2, <2>2, <3>1, Zenon DEF Pushed
    <3>3. CASE window
      <4>1. PixelDrawn(q, w)
        BY <3>0, <3>3, Zenon DEF PixelDrawn, But, Names, Drawing
      <4> QED
        BY <3>2, <3>3, <4>1, Zenon
    <3>4. CASE ~window
      <4>1. PixelDrawn(q, m)
        BY <2>0, <3>0, <3>4, Zenon DEF PixelDrawn, But, Names, Drawing
      <4> QED
        BY <3>2, <3>4, <4>1, Zenon
    <3> QED
      BY <3>3, <3>4
  <2> QED
    BY <2>1, <2>2
<1> QED
  BY <1>1, <1>2

\* The end of a line.
LineDone(q, n) ==
  /\ But({"framebuffer_x", "fetch_x", "is_first_fetch", "processed_pixels",
          "bg_wnd_fetch_step", "sprite_fetch_active", "bg_wnd_fifo", "tile",
          "window_line_counter", "sprite_fifo"}, q, n)
  /\ n.framebuffer_x = 0 /\ n.fetch_x = 0 /\ n.is_first_fetch = TRUE
  /\ n.processed_pixels = 0 /\ n.bg_wnd_fetch_step = 0
  /\ n.sprite_fetch_active = FALSE /\ n.bg_wnd_fifo = <<>> /\ n.tile = NoTile
  /\ n.window_line_counter = q.window_line_counter + (IF q.reached_window_x THEN 1 ELSE 0)
  /\ n.sprite_fifo = [i \in DOMAIN q.sprite_fifo |->
                        [q.sprite_fifo[i] EXCEPT !.own = FALSE, !.sprite = 0]]

LEMMA FinishedFields ==
  ASSUME NEW q, DOMAIN q = Names
  PROVE  LineDone(q, Finished(q))
BY Zenon DEF LineDone, Finished, But, Names

-----------------------------------------------------------------------------
(* Type correctness.  Setup is what a line is drawn from, Drawable what is *)
(* true of the drawing state between any two of the steps of a tick.       *)

Setup ==
  /\ oam \in [DOMAIN oam -> Sprite] /\ DOMAIN oam \subseteq 1..Sprites
  /\ scx \in 0..255 /\ wx \in 0..255
  /\ obj_enable \in BOOLEAN /\ wnd_enable \in BOOLEAN /\ reached_window_y \in BOOLEAN
  /\ sprite_buffer \in Seq(DOMAIN oam) /\ Len(sprite_buffer) <= LineSprites

Fifos(q) ==
  /\ q.bg_wnd_fifo \in Seq(BgPixel) /\ Len(q.bg_wnd_fifo) <= Fifo
  /\ q.sprite_fifo \in Seq(ObjPixel) /\ Len(q.sprite_fifo) <= Fifo

Flags(q) ==
  /\ q.is_first_fetch \in BOOLEAN
  /\ q.sprite_fetch_active \in BOOLEAN
  /\ q.reached_window_x \in BOOLEAN

Counters(q) ==
  /\ q.bg_wnd_fetch_step \in 0..7
  /\ q.sprite_fetch_step \in 0..6
  /\ q.fetch_x \in Nat
  /\ q.sprite_index \in 0..Len(sprite_buffer)
  /\ q.framebuffer_x \in Nat
  /\ q.processed_pixels \in Nat
  /\ q.window_line_counter \in Nat

Fetching(q) ==
  /\ q.tile \in Tile
  /\ q.lo \in Pattern /\ q.hi \in Pattern
  /\ q.sprite_fetch_active => q.current_sprite \in DOMAIN oam

Drawable(q) == DOMAIN q = Names /\ Fifos(q) /\ Flags(q) /\ Counters(q) /\ Fetching(q)

LEMMA BeginDrawable ==
  ASSUME Setup, NEW q, Drawable(q)
  PROVE  Drawable(BeginSprite(q))
<1> DEFINE n == BeginSprite(q)
<1>1. CASE BeginSprite(q) = q
  BY <1>1
<1>2. CASE Begins(q) /\ Begun(q, n)
  <2>1. /\ DOMAIN n = Names
        /\ n.bg_wnd_fifo = q.bg_wnd_fifo /\ n.sprite_fifo = q.sprite_fifo
        /\ n.fetch_x = q.fetch_x /\ n.tile = q.tile /\ n.is_first_fetch = q.is_first_fetch
        /\ n.lo = q.lo /\ n.hi = q.hi /\ n.framebuffer_x = q.framebuffer_x
        /\ n.processed_pixels = q.processed_pixels
        /\ n.reached_window_x = q.reached_window_x
        /\ n.window_line_counter = q.window_line_counter
    BY <1>2, Zenon DEF Begun, But, Names
  <2>2. /\ n.current_sprite = sprite_buffer[q.sprite_index + 1]
        /\ n.sprite_fetch_active = TRUE
        /\ n.sprite_index = q.sprite_index + 1
        /\ n.sprite_fetch_step = 0
        /\ n.bg_wnd_fetch_step = 0
        /\ q.sprite_index < Len(sprite_buffer)
    BY <1>2 DEF Begun, Begins
  <2> HIDE DEF n
  <2>3. Fifos(n)
    BY <2>1, Zenon DEF Drawable, Fifos
  <2>4. Flags(n)
    BY <2>1, <2>2, Zenon DEF Drawable, Flags
  <2>5. Counters(n)
    <3>1. Len(sprite_buffer) \in Nat /\ Counters(q)
      BY LenProperties DEF Setup, Drawable
    <3> QED
      BY <2>1, <2>2, <3>1 DEF Counters
  <2>6. Fetching(n)
    <3>1. sprite_buffer[q.sprite_index + 1] \in DOMAIN oam
      <4>1. q.sprite_index \in Nat /\ Len(sprite_buffer) \in Nat
        BY LenProperties DEF Setup, Drawable, Counters
      <4>2. q.sprite_index + 1 \in 1..Len(sprite_buffer)
        BY <2>2, <4>1
      <4> QED
        BY <4>2, ElementOfSeq DEF Setup
    <3> QED
      BY <2>1, <2>2, <3>1, Zenon DEF Fetching, Drawable
  <2> QED
    BY <2>1, <2>3, <2>4, <2>5, <2>6, Zenon DEF Drawable, n
<1> QED
  BY <1>1, <1>2, BeginCases, Zenon DEF Drawable

LEMMA LargestExists ==
  ASSUME NEW S \in SUBSET (0..Fifo), S # {}
  PROVE  Max(S) \in S /\ \A i \in S : i <= Max(S)
<1>1. \E m \in S : \A i \in S : m >= i
  <2>1. \A i \in S : i \in 0..8
    BY DEF Fifo
  <2>8. CASE 8 \in S
    BY <2>1, <2>8
  <2>7. CASE 8 \notin S /\ 7 \in S
    BY <2>1, <2>7
  <2>6. CASE 8 \notin S /\ 7 \notin S /\ 6 \in S
    BY <2>1, <2>6
  <2>5. CASE 8 \notin S /\ 7 \notin S /\ 6 \notin S /\ 5 \in S
    BY <2>1, <2>5
  <2>4. CASE 8 \notin S /\ 7 \notin S /\ 6 \notin S /\ 5 \notin S /\ 4 \in S
    BY <2>1, <2>4
  <2>3. CASE \A i \in S : i \in 0..3
    <3>1. CASE 3 \in S
      BY <2>3, <3>1
    <3>2. CASE 3 \notin S /\ 2 \in S
      BY <2>3, <3>2
    <3>3. CASE 3 \notin S /\ 2 \notin S /\ 1 \in S
      BY <2>3, <3>3
    <3>4. CASE 3 \notin S /\ 2 \notin S /\ 1 \notin S
      <4>1. \A i \in S : i = 0
        BY <2>3, <3>4
      <4>2. PICK m \in S : TRUE
        BY Zenon
      <4>3. \A i \in S : m >= i
        BY <4>1, <4>2
      <4> QED
        BY <4>2, <4>3, Zenon
    <3> QED
      BY <3>1, <3>2, <3>3, <3>4
  <2>2. \/ 8 \in S \/ 7 \in S \/ 6 \in S \/ 5 \in S \/ 4 \in S \/ \A i \in S : i \in 0..3
    BY <2>1
  <2> QED
    BY <2>8, <2>7, <2>6, <2>5, <2>4, <2>3, <2>2
<1> QED
  BY <1>1 DEF Max

LEMMA MergedFifo ==
  ASSUME Setup, NEW q, Drawable(q), q.current_sprite \in DOMAIN oam
  PROVE  Merged(q) \in Seq(ObjPixel) /\ Len(Merged(q)) <= Fifo
<1> DEFINE s == oam[q.current_sprite]
           first == s.x - 8 - q.framebuffer_x
           covered == {i \in 0..(Fifo - 1) : i - first \in 0..(Fifo - 1)}
           Pixel(i) == [sprite |-> q.current_sprite, opaque |-> (i - first) \in q.lo \union q.hi,
                        behind |-> s.behind, own |-> TRUE]
           old == q.sprite_fifo
           ends == {Len(old)} \union {i + 1 : i \in covered}
           length == Max(ends)
           f == [i \in 1..length |->
                   IF i <= Len(old) /\ (old[i].opaque \/ i - 1 \notin covered) THEN old[i]
                   ELSE IF i - 1 \in covered THEN Pixel(i - 1) ELSE Blank]
<1>1. Len(old) \in 0..Fifo /\ old \in Seq(ObjPixel)
  <2>1. old \in Seq(ObjPixel) /\ Len(old) <= Fifo
    BY Zenon DEF Drawable, Fifos
  <2> HIDE DEF old
  <2>2. Len(old) \in Nat
    BY <2>1, LenProperties, Zenon
  <2> DEFINE many == Len(old)
  <2>3. many \in Nat /\ many <= 8
    BY <2>1, <2>2, Zenon DEF Fifo
  <2> HIDE DEF many
  <2>4. many \in 0..8
    BY <2>3
  <2> QED
    BY <2>1, <2>4, Zenon DEF many, Fifo
<1>2. ends \in SUBSET (0..Fifo) /\ ends # {}
  <2>1. \A i \in covered : i \in 0..(Fifo - 1)
    OBVIOUS
  <2> HIDE DEF covered, old
  <2>2. \A i \in covered : i + 1 \in 0..Fifo
    BY <2>1 DEF Fifo
  <2>3. ASSUME NEW e \in ends PROVE e \in 0..Fifo
    <3>1. e = Len(old) \/ \E i \in covered : e = i + 1
      OBVIOUS
    <3> HIDE DEF ends
    <3> QED
      BY <1>1, <2>2, <3>1, Zenon
  <2>4. Len(old) \in ends
    OBVIOUS
  <2> QED
    BY <2>3, <2>4, Zenon
<1>3. length \in 0..Fifo
  <2> HIDE DEF ends
  <2> QED
    BY <1>2, LargestExists, Zenon
<1>4. ASSUME NEW i \in 1..length PROVE f[i] \in ObjPixel
  <2> HIDE DEF length
  <2>1. s.behind \in BOOLEAN
    <3>1. s \in Sprite
      BY DEF Setup
    <3> QED
      BY <3>1, SpriteFields
  <2>2. q.current_sprite \in Nat
    BY DEF Setup
  <2>3. ASSUME NEW j PROVE Pixel(j) \in ObjPixel
    <3>1. ((j - first) \in q.lo \union q.hi) \in BOOLEAN
      OBVIOUS
    <3> QED
      BY <2>1, <2>2, <3>1, Zenon DEF ObjPixel
  <2>4. Blank \in ObjPixel
    BY DEF Blank, ObjPixel
  <2>5. i <= Len(old) => old[i] \in ObjPixel
    <3>1. i <= Len(old) => i \in 1..Len(old)
      BY <1>1, <1>3 DEF Fifo
    <3> QED
      BY <1>1, <3>1, ElementOfSeq
  <2> HIDE DEF Pixel, covered
  <2> QED
    BY <2>3, <2>4, <2>5, Zenon
<1>5. Merged(q) = f
  BY Zenon DEF Merged
<1>6. f \in [1..length -> ObjPixel]
  <2> HIDE DEF length, Pixel, covered, old
  <2> QED
    BY <1>4, Zenon
<1>7. length \in Nat
  BY <1>3 DEF Fifo
<1> HIDE DEF f, length
<1> QED
  BY <1>3, <1>5, <1>6, <1>7, SeqMade DEF Fifo

LEMMA SpriteTickDrawable ==
  ASSUME Setup, NEW q, Drawable(q)
  PROVE  Drawable(SpriteTick(q))
<1> DEFINE n == SpriteTick(q)
<1>0. DOMAIN q = Names
  BY Zenon DEF Drawable
<1>1. CASE n = q
  BY <1>1
<1>2. CASE q.sprite_fetch_active /\ q.sprite_fetch_step # 6 /\ SpriteRead(q, n)
  <2>1. /\ DOMAIN n = Names
        /\ n.bg_wnd_fifo = q.bg_wnd_fifo /\ n.sprite_fifo = q.sprite_fifo
        /\ n.bg_wnd_fetch_step = q.bg_wnd_fetch_step
        /\ n.fetch_x = q.fetch_x /\ n.tile = q.tile /\ n.is_first_fetch = q.is_first_fetch
        /\ n.sprite_fetch_active = q.sprite_fetch_active
        /\ n.sprite_index = q.sprite_index /\ n.current_sprite = q.current_sprite
        /\ n.framebuffer_x = q.framebuffer_x /\ n.processed_pixels = q.processed_pixels
        /\ n.reached_window_x = q.reached_window_x
        /\ n.window_line_counter = q.window_line_counter
    BY <1>2, Zenon DEF SpriteRead, But, Names
  <2>2. /\ n.sprite_fetch_step = q.sprite_fetch_step + 1
        /\ n.lo = IF q.sprite_fetch_step = 2 THEN oam[q.current_sprite].lo ELSE q.lo
        /\ n.hi = IF q.sprite_fetch_step = 4 THEN oam[q.current_sprite].hi ELSE q.hi
    BY <1>2, Zenon DEF SpriteRead
  <2>3. oam[q.current_sprite].lo \in Pattern /\ oam[q.current_sprite].hi \in Pattern
    <3>1. oam[q.current_sprite] \in Sprite
      BY <1>2 DEF Setup, Drawable, Fetching
    <3> QED
      BY <3>1, SpriteFields
  <2> HIDE DEF n
  <2>4. Fifos(n) /\ Flags(n)
    BY <2>1, Zenon DEF Drawable, Fifos, Flags
  <2>5. Counters(n)
    <3>1. Counters(q) /\ q.sprite_fetch_step # 6
      BY <1>2, Zenon DEF Drawable
    <3> QED
      BY <2>1, <2>2, <3>1 DEF Counters
  <2>6. Fetching(n)
    BY <2>1, <2>2, <2>3, Zenon DEF Fetching, Drawable
  <2> QED
    BY <2>1, <2>4, <2>5, <2>6, Zenon DEF Drawable, n
<1>3. CASE q.sprite_fetch_active /\ q.sprite_fetch_step = 6 /\ SpriteDone(q, n)
  <2>1. /\ DOMAIN n = Names
        /\ n.bg_wnd_fifo = q.bg_wnd_fifo
        /\ n.bg_wnd_fetch_step = q.bg_wnd_fetch_step
        /\ n.fetch_x = q.fetch_x /\ n.tile = q.tile /\ n.is_first_fetch = q.is_first_fetch
        /\ n.sprite_index = q.sprite_index
        /\ n.framebuffer_x = q.framebuffer_x /\ n.processed_pixels = q.processed_pixels
        /\ n.reached_window_x = q.reached_window_x
        /\ n.window_line_counter = q.window_line_counter
    BY <1>3, Zenon DEF SpriteDone, But, Names
  <2>2. /\ n.sprite_fifo = Merged(q) /\ n.sprite_fetch_active = FALSE
        /\ n.sprite_fetch_step = 0 /\ n.lo = {} /\ n.hi = {}
    BY <1>3, Zenon DEF SpriteDone
  <2>3. Merged(q) \in Seq(ObjPixel) /\ Len(Merged(q)) <= Fifo
    BY <1>3, MergedFifo, Zenon DEF Drawable, Fetching
  <2> HIDE DEF n
  <2>4. Fifos(n) /\ Flags(n)
    BY <2>1, <2>2, <2>3, Zenon DEF Drawable, Fifos, Flags
  <2>5. Counters(n)
    <3>1. 0 \in 0..6
      OBVIOUS
    <3> QED
      BY <2>1, <2>2, <3>1, Zenon DEF Counters, Drawable
  <2>6. Fetching(n)
    <3>1. {} \in Pattern
      BY DEF Pattern
    <3> QED
      BY <2>1, <2>2, <3>1, Zenon DEF Fetching, Drawable
  <2> QED
    BY <2>1, <2>4, <2>5, <2>6, Zenon DEF Drawable, n
<1> QED
  BY <1>0, <1>1, <1>2, <1>3, SpriteTickCases, Zenon

LEMMA TileOfMap ==
  ASSUME Setup, NEW q, Drawable(q)
  PROVE  TileAt(q) \in Tile
<1>1. q.fetch_x \in Nat /\ scx \div 8 \in Nat /\ q.reached_window_x \in BOOLEAN
  <2>1. q.fetch_x \in Nat /\ q.reached_window_x \in BOOLEAN
    BY Zenon DEF Drawable, Counters, Flags
  <2>2. scx \in Nat
    <3>1. scx \in 0..255
      BY Zenon DEF Setup
    <3> QED
      BY <3>1, SMT
  <2> QED
    BY <2>1, <2>2
<1>2. (q.fetch_x + scx \div 8) % MapWidth \in Nat
  <2>1. \A m, k \in Nat : m + k \in Nat
    OBVIOUS
  <2>2. q.fetch_x + scx \div 8 \in Nat
    BY <1>1, <2>1, Zenon
  <2>3. \A m \in Nat : m % MapWidth \in Nat
    BY FetcherAssumption DEF FetcherAssumption
  <2> QED
    BY <2>2, <2>3, Zenon
<1> QED
  BY <1>1, <1>2, Zenon DEF TileAt, Tile

LEMMA TilePixelsFifo ==
  ASSUME NEW t \in Tile
  PROVE  /\ TilePixels(t) \in Seq(BgPixel) /\ Len(TilePixels(t)) = Fifo
         /\ \A i \in 1..Fifo : TilePixels(t)[i] = [window |-> t.window, column |-> Fifo * t.column + i - 1]
<1>1. t.window \in BOOLEAN /\ t.column \in Nat /\ DOMAIN t = {"window", "column"}
  BY DEF Tile
<1>2. \A i \in 1..Fifo : TilePixels(t)[i] = [window |-> t.window, column |-> Fifo * t.column + i - 1]
  BY <1>1 DEF TilePixels, Tile
<1>3. \A i \in 1..Fifo : Fifo * t.column + i - 1 \in Nat
  BY <1>1 DEF Fifo
<1>4. TilePixels(t) \in [1..Fifo -> BgPixel]
  <2>1. ASSUME NEW i \in 1..Fifo PROVE TilePixels(t)[i] \in BgPixel
    <3>1. [window |-> t.window, column |-> Fifo * t.column + i - 1] \in BgPixel
      BY <1>1, <1>3, Zenon DEF BgPixel, Tile
    <3> QED
      BY <1>2, <3>1, Zenon
  <2> QED
    BY <2>1, Zenon DEF TilePixels
<1>5. Fifo \in Nat
  BY DEF Fifo
<1> QED
  BY <1>2, <1>4, <1>5, SeqMade, Zenon

LEMMA BgTickDrawable ==
  ASSUME Setup, NEW q, Drawable(q)
  PROVE  Drawable(BgTick(q))
<1> DEFINE n == BgTick(q)
<1>0. DOMAIN q = Names
  BY Zenon DEF Drawable
<1>1. CASE n = q
  BY <1>1
<1>2. CASE TileChosen(q, n) \/ FetchRepeated(q, n) \/ TilePushed(q, n) \/ FetchGoesOn(q, n)
  <2>1. /\ DOMAIN n = Names
        /\ n.sprite_fifo = q.sprite_fifo
        /\ n.sprite_fetch_step = q.sprite_fetch_step
        /\ n.sprite_fetch_active = q.sprite_fetch_active
        /\ n.sprite_index = q.sprite_index /\ n.current_sprite = q.current_sprite
        /\ n.lo = q.lo /\ n.hi = q.hi
        /\ n.framebuffer_x = q.framebuffer_x /\ n.processed_pixels = q.processed_pixels
        /\ n.reached_window_x = q.reached_window_x
        /\ n.window_line_counter = q.window_line_counter
    <3>1. CASE TileChosen(q, n)
      BY <3>1, Zenon DEF TileChosen, But, Names
    <3>2. CASE FetchRepeated(q, n)
      BY <3>2, Zenon DEF FetchRepeated, But, Names
    <3>3. CASE TilePushed(q, n)
      BY <3>3, Zenon DEF TilePushed, But, Names
    <3>4. CASE FetchGoesOn(q, n)
      BY <3>4, Zenon DEF FetchGoesOn, But, Names
    <3> QED
      BY <1>2, <3>1, <3>2, <3>3, <3>4, Zenon
  <2>2. n.bg_wnd_fetch_step \in 0..7
    <3>1. 0 \in 0..7 /\ 1 \in 0..7 /\ 7 \in 0..7
      OBVIOUS
    <3>2. ASSUME NEW s \in 0..7 PROVE (s + 1) % 8 \in 0..7
      OBVIOUS
    <3>3. q.bg_wnd_fetch_step \in 0..7
      BY Zenon DEF Drawable, Counters
    <3> QED
      BY <1>2, <3>1, <3>2, <3>3, Zenon DEF TileChosen, FetchRepeated, TilePushed, FetchGoesOn
  <2>3. /\ n.is_first_fetch \in BOOLEAN
        /\ n.fetch_x \in Nat
        /\ n.tile \in Tile
        /\ n.bg_wnd_fifo \in Seq(BgPixel) /\ Len(n.bg_wnd_fifo) <= Fifo
    <3>0. /\ q.is_first_fetch \in BOOLEAN
          /\ q.fetch_x \in Nat /\ q.tile \in Tile
          /\ q.bg_wnd_fifo \in Seq(BgPixel) /\ Len(q.bg_wnd_fifo) <= Fifo
      BY Zenon DEF Drawable, Flags, Counters, Fifos, Fetching
    <3>1. CASE TileChosen(q, n)
      <4>1. /\ n.is_first_fetch = q.is_first_fetch /\ n.fetch_x = q.fetch_x
            /\ n.bg_wnd_fifo = q.bg_wnd_fifo /\ n.tile = TileAt(q)
        BY <3>1, Zenon DEF TileChosen, But, Names
      <4> QED
        BY <3>0, <4>1, TileOfMap, Zenon
    <3>2. CASE FetchRepeated(q, n)
      <4>1. /\ n.is_first_fetch = FALSE /\ n.fetch_x = q.fetch_x
            /\ n.bg_wnd_fifo = q.bg_wnd_fifo /\ n.tile = q.tile
        BY <3>2, Zenon DEF FetchRepeated, But, Names
      <4> QED
        BY <3>0, <4>1, Zenon
    <3>3. CASE TilePushed(q, n)
      <4>1. /\ n.is_first_fetch = q.is_first_fetch /\ n.fetch_x = q.fetch_x + 1
            /\ n.bg_wnd_fifo = TilePixels(q.tile) /\ n.tile = NoTile
        BY <3>3, Zenon DEF TilePushed, But, Names
      <4>2. q.fetch_x + 1 \in Nat
        BY <3>0
      <4>3. NoTile \in Tile
        BY DEF NoTile, Tile
      <4>4. TilePixels(q.tile) \in Seq(BgPixel) /\ Len(TilePixels(q.tile)) <= Fifo
        <5>1. Fifo <= Fifo
          BY DEF Fifo
        <5> QED
          BY <3>0, <5>1, TilePixelsFifo, Zenon
      <4> QED
        BY <3>0, <4>1, <4>2, <4>3, <4>4, Zenon
    <3>4. CASE FetchGoesOn(q, n)
      <4>1. /\ n.is_first_fetch = q.is_first_fetch /\ n.fetch_x = q.fetch_x
            /\ n.bg_wnd_fifo = q.bg_wnd_fifo /\ n.tile = q.tile
        BY <3>4, Zenon DEF FetchGoesOn, But, Names
      <4> QED
        BY <3>0, <4>1, Zenon
    <3> QED
      BY <1>2, <3>1, <3>2, <3>3, <3>4, Zenon
  <2> HIDE DEF n
  <2>4. Fifos(n) /\ Flags(n) /\ Counters(n) /\ Fetching(n)
    BY <2>1, <2>2, <2>3, Zenon DEF Drawable, Fifos, Flags, Counters, Fetching
  <2> QED
    BY <2>1, <2>4, Zenon DEF Drawable, n
<1> QED
  BY <1>0, <1>1, <1>2, BgTickCases, Zenon

LEMMA PoppedFifo ==
  ASSUME NEW S, NEW fifo \in Seq(S)
  PROVE  /\ Popped(fifo) \in Seq(S)
         /\ fifo # <<>> => Len(Popped(fifo)) = Len(fifo) - 1 /\ Len(fifo) > 0
         /\ Len(Popped(fifo)) <= Len(fifo)
         /\ \A i \in 1..Len(Popped(fifo)) : Popped(fifo)[i] = fifo[i + 1]
<1>0. Len(fifo) \in Nat
  BY LenProperties
<1>1. CASE fifo = <<>>
  BY <1>0, <1>1, EmptySeq DEF Popped
<1>2. CASE fifo # <<>>
  <2>1. Popped(fifo) = Tail(fifo)
    BY <1>2 DEF Popped
  <2>2. /\ Tail(fifo) \in Seq(S) /\ Len(Tail(fifo)) = Len(fifo) - 1
        /\ \A i \in 1..Len(Tail(fifo)) : Tail(fifo)[i] = fifo[i + 1]
    BY <1>2, HeadTailProperties
  <2>3. Len(fifo) > 0
    BY <1>0, <1>2, EmptySeq
  <2> QED
    BY <1>0, <1>2, <2>1, <2>2, <2>3
<1> QED
  BY <1>1, <1>2

LEMMA PushedDrawable ==
  ASSUME Setup, NEW q, Drawable(q)
  PROVE  Drawable(Pushed(q))
<1> DEFINE n == Pushed(q)
<1>0. /\ DOMAIN q = Names
      /\ q.bg_wnd_fifo \in Seq(BgPixel) /\ Len(q.bg_wnd_fifo) <= Fifo
      /\ q.sprite_fifo \in Seq(ObjPixel) /\ Len(q.sprite_fifo) <= Fifo
      /\ q.processed_pixels \in Nat /\ q.framebuffer_x \in Nat
  BY Zenon DEF Drawable, Fifos, Counters
<1>1. CASE n = q
  BY <1>1
<1>2. /\ q.processed_pixels + 1 \in Nat /\ q.framebuffer_x + 1 \in Nat
  BY <1>0
<1>3. ASSUME NEW S, NEW f \in Seq(S), Len(f) <= Fifo
      PROVE  /\ Popped(f) \in Seq(S) /\ Len(Popped(f)) <= Fifo
             /\ f # <<>> => Tail(f) \in Seq(S) /\ Len(Tail(f)) <= Fifo
  <2>1. Popped(f) \in Seq(S) /\ Len(Popped(f)) <= Len(f)
    BY PoppedFifo
  <2>2. Len(f) \in Nat /\ Len(Popped(f)) \in Nat
    BY <2>1, LenProperties
  <2>3. \A l, k \in Nat : k <= Fifo /\ l <= k => l <= Fifo
    BY DEF Fifo
  <2>4. Len(Popped(f)) <= Fifo
    BY <1>3, <2>1, <2>2, <2>3, Zenon
  <2> QED
    BY <2>1, <2>4, Zenon DEF Popped
<1>4. CASE PixelDiscarded(q, n)
  <2>1. /\ DOMAIN n = Names
        /\ n.sprite_fifo = q.sprite_fifo
        /\ n.bg_wnd_fetch_step = q.bg_wnd_fetch_step
        /\ n.sprite_fetch_step = q.sprite_fetch_step
        /\ n.fetch_x = q.fetch_x /\ n.tile = q.tile /\ n.is_first_fetch = q.is_first_fetch
        /\ n.sprite_fetch_active = q.sprite_fetch_active
        /\ n.sprite_index = q.sprite_index /\ n.current_sprite = q.current_sprite
        /\ n.lo = q.lo /\ n.hi = q.hi
        /\ n.framebuffer_x = q.framebuffer_x
        /\ n.reached_window_x = q.reached_window_x
        /\ n.window_line_counter = q.window_line_counter
    BY <1>4, Zenon DEF PixelDiscarded, But, Names
  <2>2. /\ n.bg_wnd_fifo = Tail(q.bg_wnd_fifo) /\ q.bg_wnd_fifo # <<>>
        /\ n.processed_pixels = q.processed_pixels + 1
    BY <1>4, Zenon DEF PixelDiscarded, Discards, Pushes
  <2>3. n.bg_wnd_fifo \in Seq(BgPixel) /\ Len(n.bg_wnd_fifo) <= Fifo
    BY <1>0, <1>3, <2>2, Zenon
  <2> HIDE DEF n
  <2>4. Fifos(n) /\ Flags(n) /\ Counters(n) /\ Fetching(n)
    BY <1>2, <2>1, <2>2, <2>3, Zenon DEF Drawable, Fifos, Flags, Counters, Fetching
  <2> QED
    BY <2>1, <2>4, Zenon DEF Drawable, n
<1>5. CASE PixelDrawn(q, n)
  <2>1. /\ DOMAIN n = Names
        /\ n.sprite_fetch_step = q.sprite_fetch_step
        /\ n.tile = q.tile /\ n.is_first_fetch = q.is_first_fetch
        /\ n.sprite_fetch_active = q.sprite_fetch_active
        /\ n.sprite_index = q.sprite_index /\ n.current_sprite = q.current_sprite
        /\ n.lo = q.lo /\ n.hi = q.hi
        /\ n.window_line_counter = q.window_line_counter
    BY <1>5, Zenon DEF PixelDrawn, Drawing, But, Names
  <2>2. /\ n.processed_pixels = q.processed_pixels + 1
        /\ n.framebuffer_x = q.framebuffer_x + 1
        /\ n.sprite_fifo = Popped(q.sprite_fifo)
        /\ q.bg_wnd_fifo # <<>>
    BY <1>5, Zenon DEF PixelDrawn, Draws, Pushes
  <2>3. n.sprite_fifo \in Seq(ObjPixel) /\ Len(n.sprite_fifo) <= Fifo
    BY <1>0, <1>3, <2>2, Zenon
  <2>4. /\ n.bg_wnd_fifo \in Seq(BgPixel) /\ Len(n.bg_wnd_fifo) <= Fifo
        /\ n.reached_window_x \in BOOLEAN
        /\ n.bg_wnd_fetch_step \in 0..7
        /\ n.fetch_x \in Nat
    <3>1. CASE But(Drawing, q, n) /\ n.bg_wnd_fifo = Tail(q.bg_wnd_fifo)
      <4>1. /\ n.reached_window_x = q.reached_window_x
            /\ n.bg_wnd_fetch_step = q.bg_wnd_fetch_step
            /\ n.fetch_x = q.fetch_x
        BY <3>1, Zenon DEF Drawing, But, Names
      <4>2. n.bg_wnd_fifo \in Seq(BgPixel) /\ Len(n.bg_wnd_fifo) <= Fifo
        BY <1>0, <1>3, <2>2, <3>1, Zenon
      <4> QED
        BY <4>1, <4>2, Zenon DEF Drawable, Flags, Counters
    <3>2. CASE /\ n.bg_wnd_fifo = <<>> /\ n.reached_window_x = TRUE
               /\ n.bg_wnd_fetch_step = 0 /\ n.fetch_x = 0
      <4>1. <<>> \in Seq(BgPixel) /\ Len(<<>>) <= Fifo
        BY EmptySeq DEF Fifo
      <4>2. 0 \in 0..7 /\ 0 \in Nat
        OBVIOUS
      <4> QED
        BY <3>2, <4>1, <4>2, Zenon
    <3> QED
      BY <1>5, <3>1, <3>2, Zenon DEF PixelDrawn
  <2> HIDE DEF n
  <2>5. Fifos(n) /\ Flags(n) /\ Counters(n) /\ Fetching(n)
    BY <1>2, <2>1, <2>2, <2>3, <2>4, Zenon DEF Drawable, Fifos, Flags, Counters, Fetching
  <2> QED
    BY <2>1, <2>5, Zenon DEF Drawable, n
<1> QED
  BY <1>0, <1>1, <1>4, <1>5, PushedCases, Zenon

LEMMA FinishedDrawable ==
  ASSUME Setup, NEW q, Drawable(q)
  PROVE  Drawable(Finished(q))
<1> DEFINE n == Finished(q)
<1>1. LineDone(q, n)
  BY FinishedFields, Zenon DEF Drawable
<1>2. /\ DOMAIN n = Names
      /\ n.sprite_fetch_step = q.sprite_fetch_step
      /\ n.sprite_index = q.sprite_index /\ n.current_sprite = q.current_sprite
      /\ n.lo = q.lo /\ n.hi = q.hi
      /\ n.reached_window_x = q.reached_window_x
  BY <1>1, Zenon DEF LineDone, But, Names
<1>3. /\ n.framebuffer_x = 0 /\ n.fetch_x = 0 /\ n.is_first_fetch = TRUE
      /\ n.processed_pixels = 0 /\ n.bg_wnd_fetch_step = 0
      /\ n.sprite_fetch_active = FALSE /\ n.bg_wnd_fifo = <<>> /\ n.tile = NoTile
      /\ n.window_line_counter = q.window_line_counter + (IF q.reached_window_x THEN 1 ELSE 0)
      /\ n.sprite_fifo = [i \in DOMAIN q.sprite_fifo |->
                            [q.sprite_fifo[i] EXCEPT !.own = FALSE, !.sprite = 0]]
  BY <1>1, Zenon DEF LineDone
<1> HIDE DEF n
<1>4. n.window_line_counter \in Nat
  <2>1. q.window_line_counter \in Nat
    BY Zenon DEF Drawable, Counters
  <2>2. \A k \in Nat : \A b : k + (IF b THEN 1 ELSE 0) \in Nat
    OBVIOUS
  <2> QED
    BY <1>3, <2>1, <2>2, Zenon
<1>5. n.sprite_fifo \in Seq(ObjPixel) /\ Len(n.sprite_fifo) = Len(q.sprite_fifo)
  <2>1. q.sprite_fifo \in Seq(ObjPixel)
    BY Zenon DEF Drawable, Fifos
  <2>2. Len(q.sprite_fifo) \in Nat /\ DOMAIN q.sprite_fifo = 1..Len(q.sprite_fifo)
    BY <2>1, LenProperties
  <2>3. ASSUME NEW i \in 1..Len(q.sprite_fifo)
        PROVE  [q.sprite_fifo[i] EXCEPT !.own = FALSE, !.sprite = 0] \in ObjPixel
    <3>1. q.sprite_fifo[i] \in ObjPixel
      BY <2>1, ElementOfSeq
    <3>2. ASSUME NEW p \in ObjPixel PROVE [p EXCEPT !.own = FALSE, !.sprite = 0] \in ObjPixel
      BY DEF ObjPixel
    <3> QED
      BY <3>1, <3>2, Zenon
  <2>4. n.sprite_fifo \in [1..Len(q.sprite_fifo) -> ObjPixel]
    BY <1>3, <2>2, <2>3, Zenon
  <2> QED
    BY <2>2, <2>4, SeqMade, Zenon
<1>6. /\ <<>> \in Seq(BgPixel) /\ Len(<<>>) <= Fifo /\ 0 \in 0..7 /\ 0 \in Nat
  BY EmptySeq DEF Fifo
<1>7. NoTile \in Tile
  BY DEF NoTile, Tile
<1>8. Fifos(n)
  BY <1>3, <1>5, <1>6, Zenon DEF Drawable, Fifos
<1>9. Flags(n) /\ Fetching(n)
  BY <1>2, <1>3, <1>7, Zenon DEF Drawable, Flags, Fetching
<1>10. Counters(n)
  BY <1>2, <1>3, <1>4, <1>6, Zenon DEF Drawable, Counters
<1> QED
  BY <1>2, <1>8, <1>9, <1>10, Zenon DEF Drawable, n

\* What the fetchers leave to the LCD.
LEMMA FetchedFields ==
  ASSUME Setup, NEW q, Drawable(q)
  PROVE  LET n == BgTick(SpriteTick(BeginSprite(q)))
         IN /\ Drawable(n)
            /\ n.framebuffer_x = q.framebuffer_x
            /\ n.processed_pixels = q.processed_pixels
            /\ n.reached_window_x = q.reached_window_x
            /\ n.window_line_counter = q.window_line_counter
<1> DEFINE a == BeginSprite(q)
           b == SpriteTick(a)
           n == BgTick(b)
<1>1. /\ Drawable(a) /\ Drawable(b) /\ Drawable(n)
      /\ DOMAIN q = Names /\ DOMAIN a = Names /\ DOMAIN b = Names
  BY BeginDrawable, SpriteTickDrawable, BgTickDrawable, Zenon DEF Drawable
<1> DEFINE Same(m, k) == /\ m.framebuffer_x = k.framebuffer_x
                         /\ m.processed_pixels = k.processed_pixels
                         /\ m.reached_window_x = k.reached_window_x
                         /\ m.window_line_counter = k.window_line_counter
<1>2. Same(a, q)
  <2>1. CASE Begun(q, a)
    BY <2>1, Zenon DEF Begun, But, Names
  <2> QED
    BY <1>1, <2>1, BeginCases, Zenon
<1>3. Same(b, a)
  <2> HIDE DEF a
  <2>1. CASE SpriteRead(a, b)
    BY <2>1, Zenon DEF SpriteRead, But, Names
  <2>2. CASE SpriteDone(a, b)
    BY <2>2, Zenon DEF SpriteDone, But, Names
  <2> QED
    BY <1>1, <2>1, <2>2, SpriteTickCases, Zenon
<1>4. Same(n, b)
  <2> HIDE DEF b
  <2>1. CASE TileChosen(b, n)
    BY <2>1, Zenon DEF TileChosen, But, Names
  <2>2. CASE FetchRepeated(b, n)
    BY <2>2, Zenon DEF FetchRepeated, But, Names
  <2>3. CASE TilePushed(b, n)
    BY <2>3, Zenon DEF TilePushed, But, Names
  <2>4. CASE FetchGoesOn(b, n)
    BY <2>4, Zenon DEF FetchGoesOn, But, Names
  <2> QED
    BY <1>1, <2>1, <2>2, <2>3, <2>4, BgTickCases, Zenon
<1> HIDE DEF n
<1>5. n.framebuffer_x = q.framebuffer_x /\ n.processed_pixels = q.processed_pixels
      /\ n.reached_window_x = q.reached_window_x
      /\ n.window_line_counter = q.window_line_counter
  BY <1>2, <1>3, <1>4, Zenon
<1> QED
  BY <1>1, <1>5, Zenon DEF n

LEMMA PushedLines ==
  ASSUME NEW q, DOMAIN q = Names
  PROVE  Pushed(q).window_line_counter = q.window_line_counter
<1> DEFINE n == Pushed(q)
<1>1. CASE PixelDiscarded(q, n)
  BY <1>1, Zenon DEF PixelDiscarded, But, Names
<1>2. CASE PixelDrawn(q, n)
  BY <1>2, Zenon DEF PixelDrawn, Drawing, But, Names
<1> QED
  BY <1>1, <1>2, PushedCases, Zenon

LineFields == {"ticks", "changes", "steady", "merged"}

TypeInv ==
  /\ mode \in Modes
  /\ Setup
  /\ mode = "DRAW" => DOMAIN oam = 1..Sprites
  /\ Drawable(d)
  /\ d.framebuffer_x < Width
  /\ d.window_line_counter <= MaxWindowLines
  /\ mode # "HBLANK" => d.window_line_counter < MaxWindowLines
  /\ DOMAIN line = LineFields /\ line.ticks \in Nat

LEMMA TypeInit == Init => TypeInv
<1> SUFFICES ASSUME Init PROVE TypeInv
  OBVIOUS
<1> USE DEF Init
<1>1. /\ DOMAIN d = Names
      /\ d.bg_wnd_fifo = <<>> /\ d.sprite_fifo = <<>>
      /\ d.bg_wnd_fetch_step = 0 /\ d.sprite_fetch_step = 0 /\ d.fetch_x = 0
      /\ d.tile = NoTile /\ d.is_first_fetch = TRUE /\ d.sprite_fetch_active = FALSE
      /\ d.sprite_index = 0 /\ d.lo = {} /\ d.hi = {}
      /\ d.framebuffer_x = 0 /\ d.processed_pixels = 0 /\ d.reached_window_x = FALSE
      /\ d.window_line_counter = 0
  BY Zenon DEF Names
<1>2. /\ oam = <<>> /\ scx = 0 /\ wx = 0 /\ obj_enable = FALSE /\ wnd_enable = FALSE
      /\ reached_window_y = FALSE /\ sprite_buffer = <<>> /\ mode = "OFF"
      /\ line = NewLine(TRUE)
  BY Zenon
<1> HIDE DEF Init
<1>3. /\ \A S : <<>> \in Seq(S)
      /\ Len(<<>>) = 0 /\ DOMAIN <<>> = {} /\ <<>> \in [{} -> Sprite]
  BY EmptySeq
<1>4. Setup
  <2>1. 0 <= LineSprites /\ 0 \in 0..255
    BY FetcherAssumption DEF FetcherAssumption
  <2>2. {} \subseteq 1..Sprites
    OBVIOUS
  <2>3. DOMAIN oam = {} /\ oam \in [{} -> Sprite]
    BY <1>2, <1>3, Zenon
  <2> QED
    BY <1>2, <1>3, <2>1, <2>2, <2>3, Zenon DEF Setup
<1>5. Drawable(d)
  <2>1. 0 <= Fifo /\ 0 \in 0..7 /\ 0 \in 0..6 /\ 0 \in Nat /\ 0 \in 0..0
    BY DEF Fifo
  <2>2. NoTile \in Tile /\ {} \in Pattern
    BY DEF NoTile, Tile, Pattern
  <2>3. Fifos(d) /\ Flags(d) /\ Counters(d) /\ Fetching(d)
    BY <1>1, <1>2, <1>3, <2>1, <2>2, Zenon DEF Fifos, Flags, Counters, Fetching
  <2> QED
    BY <1>1, <2>3, Zenon DEF Drawable
<1>6. /\ DOMAIN line = LineFields /\ line.ticks = 0
  BY <1>2, Zenon DEF NewLine, LineFields
<1>7. 0 < Width /\ 0 < MaxWindowLines /\ 0 <= MaxWindowLines /\ 0 \in Nat
  BY FetcherAssumption DEF FetcherAssumption
<1>8. mode \in Modes /\ mode # "DRAW"
  BY <1>2 DEF Modes
<1> QED
  BY <1>1, <1>4, <1>5, <1>6, <1>7, <1>8, Zenon DEF TypeInv

LEMMA SettingTypes ==
  ASSUME NEW s \in Settings \union Inputs
  PROVE  /\ s.oam \in [1..Sprites -> Sprite]
         /\ s.scx \in 0..255 /\ s.wx \in 0..255
         /\ s.obj_enable \in BOOLEAN /\ s.wnd_enable \in BOOLEAN
BY FetcherAssumption, Zenon DEF FetcherAssumption

LEMMA LineLonger ==
  ASSUME NEW n \in Nat
  PROVE  Min({n + 1, LineLimit + 1}) \in Nat /\ Min({n + 1, LineLimit + 1}) <= n + 1
<1>1. LineLimit + 1 \in Nat
  BY FetcherAssumption DEF FetcherAssumption, LineLimit
<1>2. \A a, b \in Nat : /\ Min({a, b}) \in {a, b}
                        /\ Min({a, b}) <= a
  BY DEF Min
<1>3. n + 1 \in Nat
  OBVIOUS
<1> QED
  BY <1>1, <1>2, <1>3, Zenon

\* The fields of the line that a tick changes.
LEMMA LineAfterTick ==
  ASSUME DrawTick, TypeInv
  PROVE  DOMAIN line' = LineFields /\ line'.ticks = Min({line.ticks + 1, LineLimit + 1})
BY Zenon DEF DrawTick, TypeInv, LineFields

LEMMA TypeTick == TypeInv /\ DrawTick => TypeInv'
<1> SUFFICES ASSUME TypeInv, DrawTick PROVE TypeInv'
  OBVIOUS
<1>1. Setup /\ Drawable(d) /\ mode = "DRAW" /\ DOMAIN oam = 1..Sprites /\ line.ticks \in Nat
  BY Zenon DEF TypeInv, DrawTick
<1>2. /\ DOMAIN line' = LineFields /\ line'.ticks \in Nat
  BY <1>1, LineAfterTick, LineLonger, Zenon
<1>3. UNCHANGED <<oam, scx, wx, obj_enable, wnd_enable, sprite_buffer, reached_window_y>>
  BY Zenon DEF DrawTick, settings
<1>4. Setup'
  BY <1>1, <1>3, Zenon DEF Setup
<1>5. \A q : Drawable(q) => Drawable(q)'
  BY <1>3, Zenon DEF Drawable, Fifos, Flags, Counters, Fetching
<1> DEFINE n == Pushed(Fetched)
<1>6. Drawable(Fetched) /\ Fetched.window_line_counter = d.window_line_counter
  BY <1>1, FetchedFields, Zenon DEF Fetched
<1>7. Drawable(n)
  BY <1>1, <1>6, PushedDrawable, Zenon
<1>8. n.window_line_counter = d.window_line_counter
  BY <1>6, PushedLines, Zenon DEF Drawable
<1>9. CASE n.framebuffer_x >= Width
  <2>1. mode' = "HBLANK" /\ d' = Finished(n)
    BY <1>9, Zenon DEF DrawTick
  <2>2. Drawable(Finished(n))
    BY <1>1, <1>7, FinishedDrawable, Zenon
  <2>3. Drawable(d)'
    BY <1>5, <2>1, <2>2, Zenon DEF Drawable, Fifos, Flags, Counters, Fetching
  <2>4. d'.framebuffer_x = 0 /\ 0 < Width
    <3>1. d'.framebuffer_x = 0
      BY <1>7, <2>1, FinishedFields, Zenon DEF Drawable, LineDone
    <3>2. 0 < Width
      BY FetcherAssumption DEF FetcherAssumption
    <3> QED
      BY <3>1, <3>2
  <2>5. d'.window_line_counter <= MaxWindowLines
    <3>1. d'.window_line_counter = n.window_line_counter + (IF n.reached_window_x THEN 1 ELSE 0)
      BY <1>7, <2>1, FinishedFields, Zenon DEF Drawable, LineDone
    <3>2. d.window_line_counter \in Nat /\ d.window_line_counter < MaxWindowLines
      BY <1>1, Zenon DEF Drawable, Counters, TypeInv
    <3>3. \A k \in Nat : \A b : k < MaxWindowLines => k + (IF b THEN 1 ELSE 0) <= MaxWindowLines
      BY FetcherAssumption DEF FetcherAssumption
    <3> QED
      BY <1>8, <3>1, <3>2, <3>3, Zenon
  <2>6. mode' \in Modes /\ mode' # "DRAW"
    BY <2>1 DEF Modes
  <2> QED
    BY <1>2, <1>4, <2>1, <2>3, <2>4, <2>5, <2>6, Zenon DEF TypeInv
<1>10. CASE ~(n.framebuffer_x >= Width)
  <2>1. mode' = "DRAW" /\ d' = n
    BY <1>1, <1>10, Zenon DEF DrawTick
  <2>2. n.framebuffer_x < Width
    <3>1. n.framebuffer_x \in Nat /\ Width \in Nat
      BY <1>7, FetcherAssumption, Zenon DEF Drawable, Counters, FetcherAssumption
    <3> QED
      BY <1>10, <3>1
  <2>3. Drawable(d)'
    BY <1>5, <1>7, <2>1, Zenon DEF Drawable, Fifos, Flags, Counters, Fetching
  <2> QED
    BY <1>1, <1>2, <1>3, <1>4, <1>8, <2>1, <2>2, <2>3, Zenon DEF TypeInv
<1> QED
  BY <1>9, <1>10

LEMMA TypeHblank == TypeInv /\ HblankEnds => TypeInv'
<1> SUFFICES ASSUME TypeInv, HblankEnds PROVE TypeInv'
  OBVIOUS
<1>1. /\ UNCHANGED <<oam, scx, wx, obj_enable, wnd_enable, sprite_buffer, line>>
      /\ mode' = "OAM_SCAN"
  BY Zenon DEF HblankEnds, settings
<1>2. reached_window_y' \in BOOLEAN
  BY Zenon DEF HblankEnds, TypeInv, Setup
<1>3. Setup'
  BY <1>1, <1>2, Zenon DEF Setup, TypeInv
<1>4. \/ d.window_line_counter < MaxWindowLines /\ d' = [d EXCEPT !.reached_window_x = FALSE]
      \/ d' = [d EXCEPT !.reached_window_x = FALSE, !.window_line_counter = 0]
  BY Zenon DEF HblankEnds
<1>5. /\ But({"reached_window_x", "window_line_counter"}, d, d')
      /\ d'.reached_window_x = FALSE
      /\ \/ /\ d'.window_line_counter = d.window_line_counter
            /\ d.window_line_counter < MaxWindowLines
         \/ d'.window_line_counter = 0
  <2>1. DOMAIN d = Names
    BY Zenon DEF TypeInv, Drawable
  <2> QED
    BY <1>4, <2>1, Zenon DEF But, Names
<1>6. 0 < MaxWindowLines /\ 0 \in Nat
  BY FetcherAssumption DEF FetcherAssumption
<1>7. d'.window_line_counter \in Nat /\ d'.window_line_counter < MaxWindowLines
  BY <1>5, <1>6, Zenon DEF TypeInv, Drawable, Counters
<1>8. Drawable(d')
  <2>1. /\ DOMAIN d' = Names
        /\ d'.bg_wnd_fifo = d.bg_wnd_fifo /\ d'.sprite_fifo = d.sprite_fifo
        /\ d'.bg_wnd_fetch_step = d.bg_wnd_fetch_step
        /\ d'.sprite_fetch_step = d.sprite_fetch_step
        /\ d'.fetch_x = d.fetch_x /\ d'.tile = d.tile /\ d'.is_first_fetch = d.is_first_fetch
        /\ d'.sprite_fetch_active = d.sprite_fetch_active
        /\ d'.sprite_index = d.sprite_index /\ d'.current_sprite = d.current_sprite
        /\ d'.lo = d.lo /\ d'.hi = d.hi
        /\ d'.framebuffer_x = d.framebuffer_x /\ d'.processed_pixels = d.processed_pixels
    BY <1>5, Zenon DEF But, Names
  <2> QED
    BY <1>5, <1>7, <2>1, Zenon DEF TypeInv, Drawable, Fifos, Flags, Counters, Fetching
<1>9. Drawable(d)'
  BY <1>1, <1>8, Zenon DEF Drawable, Fifos, Flags, Counters, Fetching
<1>10. d'.framebuffer_x = d.framebuffer_x
  BY <1>5, Zenon DEF But, Names
<1>11. d'.window_line_counter <= MaxWindowLines
  BY <1>7, FetcherAssumption DEF FetcherAssumption
<1>12. mode' \in Modes /\ mode' # "DRAW"
  BY <1>1 DEF Modes
<1> QED
  BY <1>1, <1>3, <1>7, <1>9, <1>10, <1>11, <1>12, Zenon DEF TypeInv

\* The list that a scan leaves, whatever was on the line.
LEMMA ScanSettings ==
  ASSUME ScanEnds
  PROVE  /\ oam' \in [1..Sprites -> Sprite] /\ DOMAIN oam' = 1..Sprites
         /\ scx' \in 0..255 /\ wx' \in 0..255
         /\ obj_enable' \in BOOLEAN /\ wnd_enable' \in BOOLEAN
         /\ IsList(oam', sprite_buffer')
<1>1. PICK s \in Settings : /\ Set(s)
                            /\ \E on \in SUBSET (DOMAIN s.oam) : sprite_buffer' = Scanned(s.oam, on)
  BY Zenon DEF ScanEnds
<1>2. /\ s.oam \in [1..Sprites -> Sprite]
      /\ s.scx \in 0..255 /\ s.wx \in 0..255
      /\ s.obj_enable \in BOOLEAN /\ s.wnd_enable \in BOOLEAN
  BY SettingTypes, Zenon
<1>3. PICK on \in SUBSET (1..Sprites) : sprite_buffer' = Scanned(s.oam, on)
  BY <1>1, <1>2
<1>4. IsList(s.oam, sprite_buffer')
  BY <1>2, <1>3, ScanLists, Zenon
<1>5. /\ oam' = s.oam /\ scx' = s.scx /\ wx' = s.wx
      /\ obj_enable' = s.obj_enable /\ wnd_enable' = s.wnd_enable
  BY <1>1, Zenon DEF Set
<1>6. DOMAIN s.oam = 1..Sprites
  BY <1>2
<1> QED
  BY <1>2, <1>4, <1>5, <1>6, Zenon

LEMMA TypeScan == TypeInv /\ ScanEnds => TypeInv'
<1> SUFFICES ASSUME TypeInv, ScanEnds PROVE TypeInv'
  OBVIOUS
<1>1. mode' = "DRAW" /\ mode' \in Modes /\ mode # "HBLANK" /\ mode' # "HBLANK"
  <2>1. mode' = "DRAW" /\ mode = "OAM_SCAN"
    BY Zenon DEF ScanEnds
  <2> QED
    BY <2>1 DEF Modes
<1>2. sprite_buffer' \in Seq(DOMAIN oam') /\ Len(sprite_buffer') <= LineSprites
  BY ScanSettings, Zenon DEF IsList
<1>3. reached_window_y' \in BOOLEAN
  <2>1. reached_window_y' = reached_window_y \/ reached_window_y' = TRUE
    BY DEF ScanEnds
  <2> QED
    BY <2>1, Zenon DEF TypeInv, Setup
<1>4. Setup'
  <2>1. DOMAIN oam' \subseteq 1..Sprites /\ oam' \in [DOMAIN oam' -> Sprite]
    BY ScanSettings, Zenon
  <2> QED
    BY <1>2, <1>3, <2>1, ScanSettings, Zenon DEF Setup
<1>5. DOMAIN d = Names
  BY Zenon DEF TypeInv, Drawable
<1>6. d' = [d EXCEPT !.sprite_index = 0]
  BY Zenon DEF ScanEnds
<1>7. /\ DOMAIN d' = Names
      /\ d'.bg_wnd_fifo = d.bg_wnd_fifo /\ d'.sprite_fifo = d.sprite_fifo
      /\ d'.bg_wnd_fetch_step = d.bg_wnd_fetch_step
      /\ d'.sprite_fetch_step = d.sprite_fetch_step
      /\ d'.fetch_x = d.fetch_x /\ d'.tile = d.tile /\ d'.is_first_fetch = d.is_first_fetch
      /\ d'.sprite_fetch_active = d.sprite_fetch_active
      /\ d'.sprite_index = 0 /\ d'.current_sprite = d.current_sprite
      /\ d'.lo = d.lo /\ d'.hi = d.hi
      /\ d'.framebuffer_x = d.framebuffer_x /\ d'.processed_pixels = d.processed_pixels
      /\ d'.reached_window_x = d.reached_window_x
      /\ d'.window_line_counter = d.window_line_counter
  BY <1>5, <1>6, Zenon DEF Names
<1>8. Drawable(d)'
  <2>1. 0 \in 0..Len(sprite_buffer')
    BY <1>2, LenProperties
  <2>2. Fifos(d)' /\ Flags(d)' /\ Counters(d)'
    BY <1>7, <2>1, Zenon DEF TypeInv, Drawable, Fifos, Flags, Counters
  <2>3. \A i \in DOMAIN oam : i \in DOMAIN oam'
    <3>1. DOMAIN oam' = 1..Sprites /\ DOMAIN oam \subseteq 1..Sprites
      BY ScanSettings, Zenon DEF TypeInv, Setup
    <3> QED
      BY <3>1, Zenon
  <2>4. Fetching(d)'
    BY <1>7, <2>3, Zenon DEF TypeInv, Drawable, Fetching
  <2> QED
    BY <1>7, <2>2, <2>4, Zenon DEF Drawable
<1>9. DOMAIN line' = LineFields /\ line'.ticks \in Nat
  <2>1. 0 \in Nat
    OBVIOUS
  <2> QED
    BY <2>1, Zenon DEF ScanEnds, NewLine, LineFields
<1> QED
  BY <1>1, <1>4, <1>7, <1>8, <1>9, ScanSettings, Zenon DEF TypeInv

LEMMA TypeOff == TypeInv /\ SwitchOff => TypeInv'
<1> SUFFICES ASSUME TypeInv, SwitchOff PROVE TypeInv'
  OBVIOUS
<1>1. /\ UNCHANGED <<oam, scx, wx, obj_enable, wnd_enable, sprite_buffer, reached_window_y, d, line>>
      /\ mode' = "OFF" /\ d.window_line_counter < MaxWindowLines
  BY Zenon DEF SwitchOff, settings
<1>2. Setup' /\ Drawable(d)'
  BY <1>1, Zenon DEF TypeInv, Setup, Drawable, Fifos, Flags, Counters, Fetching
<1>3. mode' \in Modes /\ mode' # "DRAW"
  BY <1>1 DEF Modes
<1> QED
  BY <1>1, <1>2, <1>3, Zenon DEF TypeInv

LEMMA TypeOn == TypeInv /\ SwitchOn => TypeInv'
<1> SUFFICES ASSUME TypeInv, SwitchOn PROVE TypeInv'
  OBVIOUS
<1>1. /\ UNCHANGED <<oam, scx, wx, obj_enable, wnd_enable, sprite_buffer, reached_window_y, line>>
      /\ mode' = "OAM_SCAN" /\ mode = "OFF"
      /\ d' = [d EXCEPT !.framebuffer_x = 0, !.processed_pixels = 0, !.fetch_x = 0,
                        !.is_first_fetch = TRUE, !.bg_wnd_fifo = <<>>, !.sprite_fifo = <<>>]
  BY Zenon DEF SwitchOn, settings
<1>2. DOMAIN d = Names
  BY Zenon DEF TypeInv, Drawable
<1>3. /\ DOMAIN d' = Names
      /\ d'.bg_wnd_fifo = <<>> /\ d'.sprite_fifo = <<>>
      /\ d'.bg_wnd_fetch_step = d.bg_wnd_fetch_step
      /\ d'.sprite_fetch_step = d.sprite_fetch_step
      /\ d'.fetch_x = 0 /\ d'.tile = d.tile /\ d'.is_first_fetch = TRUE
      /\ d'.sprite_fetch_active = d.sprite_fetch_active
      /\ d'.sprite_index = d.sprite_index /\ d'.current_sprite = d.current_sprite
      /\ d'.lo = d.lo /\ d'.hi = d.hi
      /\ d'.framebuffer_x = 0 /\ d'.processed_pixels = 0
      /\ d'.reached_window_x = d.reached_window_x
      /\ d'.window_line_counter = d.window_line_counter
  BY <1>1, <1>2, Zenon DEF Names
<1>4. Setup'
  BY <1>1, Zenon DEF TypeInv, Setup
<1>5. (\A S : <<>> \in Seq(S)) /\ Len(<<>>) <= Fifo /\ 0 \in Nat
  BY EmptySeq DEF Fifo
<1>6. Fifos(d)' /\ Flags(d)' /\ Counters(d)' /\ Fetching(d)'
  BY <1>1, <1>3, <1>5, Zenon DEF TypeInv, Drawable, Fifos, Flags, Counters, Fetching
<1>7. mode' \in Modes /\ mode' # "DRAW" /\ mode # "HBLANK"
  BY <1>1 DEF Modes
<1>8. 0 < Width
  BY FetcherAssumption DEF FetcherAssumption
<1> QED
  BY <1>1, <1>3, <1>4, <1>6, <1>7, <1>8, Zenon DEF TypeInv, Drawable

LEMMA TypeChange == TypeInv /\ Change => TypeInv'
<1> SUFFICES ASSUME TypeInv, Change PROVE TypeInv'
  OBVIOUS
<1>1. /\ UNCHANGED <<mode, sprite_buffer, d, reached_window_y>>
      /\ line' = [line EXCEPT !.changes = @ + 1, !.steady = FALSE, !.merged = <<>>]
      /\ mode = "DRAW"
  BY Zenon DEF Change
<1>2. Setup /\ DOMAIN oam = 1..Sprites
  BY <1>1, Zenon DEF TypeInv
<1>3. /\ oam' \in [1..Sprites -> Sprite] /\ DOMAIN oam' = DOMAIN oam
      /\ scx' \in 0..255 /\ wx' \in 0..255
      /\ obj_enable' \in BOOLEAN /\ wnd_enable' \in BOOLEAN
  <2>1. PICK s \in Inputs :
          \/ scx' = s.scx /\ UNCHANGED <<oam, wx, obj_enable, wnd_enable>>
          \/ wx' = s.wx /\ UNCHANGED <<oam, scx, obj_enable, wnd_enable>>
          \/ /\ obj_enable' = s.obj_enable /\ wnd_enable' = s.wnd_enable
             /\ UNCHANGED <<oam, scx, wx>>
          \/ /\ oam' = s.oam
             /\ UNCHANGED <<scx, wx, obj_enable, wnd_enable>>
    BY Zenon DEF Change
  <2>2. /\ s.oam \in [1..Sprites -> Sprite] /\ s.scx \in 0..255 /\ s.wx \in 0..255
        /\ s.obj_enable \in BOOLEAN /\ s.wnd_enable \in BOOLEAN
    BY SettingTypes, Zenon
  <2>3. DOMAIN s.oam = 1..Sprites
    BY <2>2
  <2> QED
    BY <1>2, <2>1, <2>2, <2>3, Zenon DEF Setup
<1>4. Setup'
  BY <1>1, <1>2, <1>3, Zenon DEF Setup
<1>5. Drawable(d)'
  BY <1>1, <1>3, Zenon DEF TypeInv, Drawable, Fifos, Flags, Counters, Fetching
<1>6. DOMAIN line' = LineFields /\ line'.ticks = line.ticks
  <2>1. DOMAIN line = LineFields
    BY Zenon DEF TypeInv
  <2> QED
    BY <1>1, <2>1, Zenon DEF LineFields
<1> QED
  BY <1>1, <1>2, <1>3, <1>4, <1>5, <1>6, Zenon DEF TypeInv

LEMMA TypeNext == TypeInv /\ [Next]_vars => TypeInv'
<1> SUFFICES ASSUME TypeInv, [Next]_vars PROVE TypeInv'
  OBVIOUS
<1>1. CASE UNCHANGED vars
  <2>1. UNCHANGED <<mode, oam, scx, wx, obj_enable, wnd_enable, sprite_buffer,
                    reached_window_y, d, line>>
    BY <1>1, Zenon DEF vars, settings
  <2> QED
    BY <2>1, Zenon DEF TypeInv, Setup, Drawable, Fifos, Flags, Counters, Fetching
<1> QED
  BY <1>1, TypeTick, TypeHblank, TypeScan, TypeOff, TypeOn, TypeChange, Zenon DEF Next

LEMMA TypeInvHolds == Spec => []TypeInv
<1>1. Init => TypeInv
  BY TypeInit
<1>2. TypeInv /\ [Next]_vars => TypeInv'
  BY TypeNext
<1> QED
  BY <1>1, <1>2, PTL DEF Spec

\* The types of all state, and the bounds that the C arrays rely on: at most
\* eight pixels in a FIFO, ten sprites in the list and an index within it, and
\* a framebuffer_x on the screen between ticks.
THEOREM FetcherTypeCorrect == Spec => []FetcherTypeOK
<1>1. TypeInv => FetcherTypeOK
  <2> SUFFICES ASSUME TypeInv PROVE FetcherTypeOK
    OBVIOUS
  <2>1. /\ mode \in Modes /\ Setup /\ Fifos(d) /\ Counters(d) /\ Fetching(d)
        /\ d.framebuffer_x < Width /\ d.window_line_counter <= MaxWindowLines
    BY Zenon DEF TypeInv, Drawable
  <2>2. d.sprite_index \in 0..LineSprites
    <3>1. Len(sprite_buffer) \in Nat /\ Len(sprite_buffer) <= LineSprites
          /\ d.sprite_index \in 0..Len(sprite_buffer)
      BY <2>1, LenProperties, Zenon DEF Setup, Counters
    <3> QED
      BY <3>1, FetcherAssumption DEF FetcherAssumption
  <2>3. d.sprite_fetch_step \in 0..7 /\ d.sprite_fetch_step < 7
    <3>1. d.sprite_fetch_step \in 0..6
      BY <2>1, Zenon DEF Counters
    <3> QED
      BY <3>1
  <2>4. d.framebuffer_x \in 0..(Width - 1)
    <3>1. d.framebuffer_x \in Nat
      BY <2>1, Zenon DEF Counters
    <3> QED
      BY <2>1, <3>1, FetcherAssumption DEF FetcherAssumption
  <2>5. d.window_line_counter \in 0..MaxWindowLines
    <3>1. d.window_line_counter \in Nat
      BY <2>1, Zenon DEF Counters
    <3> QED
      BY <2>1, <3>1, FetcherAssumption DEF FetcherAssumption
  <2> QED
    BY <2>1, <2>2, <2>3, <2>4, <2>5, Zenon
       DEF FetcherTypeOK, FifoTypeOK, Setup, Fifos, Counters, Fetching
<1> QED
  BY <1>1, TypeInvHolds, PTL

-----------------------------------------------------------------------------
(* A line fits.  Of every tick of a line one of the following is one less: *)
(* the pixels left to draw or to discard, the sprites left to fetch, the   *)
(* steps left of a sprite fetch, or the gap, which is the number of ticks  *)
(* until the FIFO has a pixel again, now or when the pixels in it are      *)
(* gone.  A sprite fetch starts the background fetch over, which makes the *)
(* gap at most seven longer, and so does the window, at most six.          *)

\* The ticks to the push of a tile, and the gap with k pixels in the FIFO.
ToPush(s) == IF s <= 6 THEN 6 - s ELSE 7

LaterGap(s, k) == IF k <= ToPush(s) THEN ToPush(s) - k ELSE ToPush(s) + 8 - k

\* At the start of a line the fetch is repeated, unless the LCD switch left it
\* just before its push.
ToRepeat(s) == IF s <= 5 THEN 5 - s ELSE 13 - s

FirstGap(s, k) ==
  IF s = 6 /\ k = 0 THEN 6
  ELSE 6 + (IF k <= ToRepeat(s) THEN ToRepeat(s) + 1 - k ELSE 0)

GapWith(first, s, k) == IF first THEN FirstGap(s, k) ELSE LaterGap(s, k)

Gap(q) == GapWith(q.is_first_fetch, q.bg_wnd_fetch_step, Len(q.bg_wnd_fifo))

ToDiscard(k) == IF k < 7 THEN 7 - k ELSE 0

WindowTicks(q) == IF q.reached_window_x THEN 0 ELSE 6

SpriteTicks(q) == IF q.sprite_fetch_active THEN 6 - q.sprite_fetch_step ELSE 0

\* What a line may still take for its pixels, and for its sprites too.
LineTicks(q) ==
  (Width - q.framebuffer_x) + ToDiscard(q.processed_pixels) + WindowTicks(q) + Gap(q)

TicksLeft(q) ==
  LineTicks(q) + 13 * (Len(sprite_buffer) - q.sprite_index) + SpriteTicks(q)

\* What the gaps are, and how they change.
LEMMA GapBounds ==
  ASSUME NEW s \in 0..7, NEW k \in 0..7
  PROVE  /\ LaterGap(s, k) \in Nat
         /\ FirstGap(s, k) \in Nat /\ FirstGap(s, k) >= 6
         /\ LaterGap(0, k) <= 7 /\ FirstGap(0, k) <= 12 /\ FirstGap(s, k) <= 14
         /\ FirstGap(s, 0) <= 13
         /\ LaterGap(0, 0) = 6 /\ FirstGap(0, 0) = 12
BY DEF LaterGap, FirstGap, ToPush, ToRepeat

\* A tick of the fetch with pixels in the FIFO, of which one goes.
LEMMA GapKept ==
  ASSUME NEW s \in 0..7, NEW k \in 1..7
  PROVE  /\ LaterGap((s + 1) % 8, k - 1) <= LaterGap(s, k)
         /\ s # 5 => FirstGap((s + 1) % 8, k - 1) <= FirstGap(s, k)
         /\ LaterGap(0, k - 1) <= FirstGap(5, k)
<1>1. (s + 1) % 8 = IF s = 7 THEN 0 ELSE s + 1
  OBVIOUS
<1>2. LaterGap((s + 1) % 8, k - 1) <= LaterGap(s, k)
  <2>1. CASE s = 7
    BY <1>1, <2>1 DEF LaterGap, ToPush
  <2>2. CASE s = 6
    BY <1>1, <2>2 DEF LaterGap, ToPush
  <2>3. CASE s <= 5
    BY <1>1, <2>3 DEF LaterGap, ToPush
  <2> QED
    BY <2>1, <2>2, <2>3
<1>3. s # 5 => FirstGap((s + 1) % 8, k - 1) <= FirstGap(s, k)
  <2>1. CASE s = 7
    BY <1>1, <2>1 DEF FirstGap, ToRepeat
  <2>2. CASE s = 6
    BY <1>1, <2>2 DEF FirstGap, ToRepeat
  <2>3. CASE s <= 4
    BY <1>1, <2>3 DEF FirstGap, ToRepeat
  <2> QED
    BY <2>1, <2>2, <2>3
<1>4. LaterGap(0, k - 1) <= FirstGap(5, k)
  BY DEF FirstGap, LaterGap, ToPush, ToRepeat
<1> QED
  BY <1>2, <1>3, <1>4

\* And with none.
LEMMA GapShrinks ==
  ASSUME NEW s \in 0..7
  PROVE  /\ s # 6 => LaterGap((s + 1) % 8, 0) <= LaterGap(s, 0) - 1
         /\ s # 5 /\ s # 6 => FirstGap((s + 1) % 8, 0) <= FirstGap(s, 0) - 1
         /\ LaterGap(0, 0) <= FirstGap(5, 0) - 1
         /\ LaterGap(7, 7) <= LaterGap(6, 0)
         /\ FirstGap(7, 7) <= FirstGap(6, 0)
<1>1. (s + 1) % 8 = IF s = 7 THEN 0 ELSE s + 1
  OBVIOUS
<1>2. s # 6 => LaterGap((s + 1) % 8, 0) <= LaterGap(s, 0) - 1
  BY <1>1 DEF LaterGap, ToPush
<1>3. s # 5 /\ s # 6 => FirstGap((s + 1) % 8, 0) <= FirstGap(s, 0) - 1
  BY <1>1 DEF FirstGap, ToRepeat
<1>4. LaterGap(0, 0) <= FirstGap(5, 0) - 1
  BY DEF FirstGap, LaterGap, ToPush, ToRepeat
<1>5. LaterGap(7, 7) <= LaterGap(6, 0) /\ FirstGap(7, 7) <= FirstGap(6, 0)
  BY DEF FirstGap, LaterGap, ToPush, ToRepeat
<1> QED
  BY <1>2, <1>3, <1>4, <1>5

LEMMA FifoLength ==
  ASSUME NEW q, Drawable(q)
  PROVE  /\ Len(q.bg_wnd_fifo) \in Nat
         /\ Len(q.bg_wnd_fifo) <= 7 => Len(q.bg_wnd_fifo) \in 0..7
         /\ q.bg_wnd_fifo = <<>> <=> Len(q.bg_wnd_fifo) = 0
<1>1. q.bg_wnd_fifo \in Seq(BgPixel)
  BY Zenon DEF Drawable, Fifos
<1>2. Len(q.bg_wnd_fifo) \in Nat
  BY <1>1, LenProperties, Zenon
<1>3. \A k \in Nat : /\ k <= 7 => k \in 0..7
                     /\ k \in Nat \ {0} => k # 0
  OBVIOUS
<1>4. Len(<<>>) = 0
  BY EmptySeq
<1>5. q.bg_wnd_fifo # <<>> => Len(q.bg_wnd_fifo) \in Nat \ {0}
  BY <1>1, EmptySeq, Zenon
<1> QED
  BY <1>2, <1>3, <1>4, <1>5, Zenon

\* A tick of the background fetch: the gap gets shorter, or there is a pixel
\* for the LCD.
LEMMA FetchGap ==
  ASSUME Setup, NEW q, Drawable(q), Len(q.bg_wnd_fifo) <= 7, ~q.sprite_fetch_active,
         NEW n, n = BgTick(q), NEW m, m = Len(n.bg_wnd_fifo)
  PROVE  /\ n.bg_wnd_fetch_step \in 0..7
         /\ m \in 0..8
         /\ n.is_first_fetch \in BOOLEAN /\ (n.is_first_fetch => q.is_first_fetch)
         /\ m = 0 => GapWith(n.is_first_fetch, n.bg_wnd_fetch_step, 0) <= Gap(q) - 1
         /\ m # 0 => GapWith(n.is_first_fetch, n.bg_wnd_fetch_step, m - 1) <= Gap(q)
<1> DEFINE s == q.bg_wnd_fetch_step
           k == Len(q.bg_wnd_fifo)
<1>0. /\ DOMAIN q = Names /\ s \in 0..7 /\ k \in 0..7 /\ (q.bg_wnd_fifo = <<>> <=> k = 0)
      /\ q.is_first_fetch \in BOOLEAN
      /\ n.bg_wnd_fetch_step \in 0..7 /\ n.is_first_fetch \in BOOLEAN
  <2>1. Drawable(n)
    BY BgTickDrawable
  <2> QED
    BY <2>1, FifoLength, Zenon DEF Drawable, Counters, Flags
<1>1. /\ Gap(q) = IF q.is_first_fetch THEN FirstGap(s, k) ELSE LaterGap(s, k)
  BY Zenon DEF Gap, GapWith
<1>2. ASSUME /\ n.bg_wnd_fetch_step = (s + 1) % 8
             /\ n.is_first_fetch = q.is_first_fetch /\ n.bg_wnd_fifo = q.bg_wnd_fifo
             /\ ~(s = 5 /\ q.is_first_fetch) /\ ~(s = 6 /\ q.bg_wnd_fifo = <<>>)
      PROVE  /\ m \in 0..8 /\ (n.is_first_fetch => q.is_first_fetch)
             /\ m = 0 => GapWith(n.is_first_fetch, n.bg_wnd_fetch_step, 0) <= Gap(q) - 1
             /\ m # 0 => GapWith(n.is_first_fetch, n.bg_wnd_fetch_step, m - 1) <= Gap(q)
  <2>1. m = k /\ (k = 0 => s # 6) /\ (q.is_first_fetch => s # 5)
    BY <1>0, <1>2, Zenon
  <2>2. m \in 0..8
    <3> HIDE DEF k
    <3> QED
      BY <1>0, <2>1
  <2>3. CASE k = 0
    <3>1. /\ LaterGap((s + 1) % 8, 0) <= LaterGap(s, 0) - 1
          /\ s # 5 => FirstGap((s + 1) % 8, 0) <= FirstGap(s, 0) - 1
      BY <1>0, <2>1, <2>3, GapShrinks, Zenon
    <3> QED
      BY <1>1, <1>2, <2>1, <2>2, <2>3, <3>1, Zenon DEF GapWith
  <2>4. CASE k # 0
    <3>1. k \in 1..7
      <4> HIDE DEF k
      <4> QED
        BY <1>0, <2>4
    <3>2. /\ LaterGap((s + 1) % 8, k - 1) <= LaterGap(s, k)
          /\ s # 5 => FirstGap((s + 1) % 8, k - 1) <= FirstGap(s, k)
      BY <1>0, <3>1, GapKept, Zenon
    <3> QED
      BY <1>1, <1>2, <2>1, <2>2, <2>4, <3>2, Zenon DEF GapWith
  <2> QED
    BY <2>3, <2>4
<1>3. CASE TileChosen(q, n)
  <2>1. /\ n.bg_wnd_fetch_step = 1 /\ s = 0
        /\ n.is_first_fetch = q.is_first_fetch /\ n.bg_wnd_fifo = q.bg_wnd_fifo
    BY <1>3, Zenon DEF TileChosen, But, Names
  <2>2. (0 + 1) % 8 = 1 /\ 0 # 5 /\ 0 # 6
    OBVIOUS
  <2> QED
    BY <1>0, <1>2, <2>1, <2>2, Zenon
<1>4. CASE FetchGoesOn(q, n)
  <2>1. /\ n.bg_wnd_fetch_step = (s + 1) % 8
        /\ n.is_first_fetch = q.is_first_fetch /\ n.bg_wnd_fifo = q.bg_wnd_fifo
        /\ ~(s = 5 /\ q.is_first_fetch) /\ ~(s = 6 /\ q.bg_wnd_fifo = <<>>)
    BY <1>4, Zenon DEF FetchGoesOn, But, Names
  <2> QED
    BY <1>0, <1>2, <2>1, Zenon
<1>5. CASE FetchRepeated(q, n)
  <2>1. /\ s = 5 /\ q.is_first_fetch
        /\ n.bg_wnd_fetch_step = 0 /\ n.is_first_fetch = FALSE /\ n.bg_wnd_fifo = q.bg_wnd_fifo
    BY <1>5, Zenon DEF FetchRepeated, But, Names
  <2>2. m = k
    BY <2>1, Zenon
  <2>3. m \in 0..8 /\ (k # 0 => k \in 1..7)
    <3> HIDE DEF k
    <3> QED
      BY <1>0, <2>2
  <2>4. k # 0 => LaterGap(0, k - 1) <= FirstGap(5, k)
    <3>1. 5 \in 0..7
      OBVIOUS
    <3> QED
      BY <2>3, <3>1, GapKept, Zenon
  <2>5. LaterGap(0, 0) <= FirstGap(5, 0) - 1
    <3>1. 5 \in 0..7
      OBVIOUS
    <3> QED
      BY <3>1, GapShrinks, Zenon
  <2> QED
    BY <1>0, <1>1, <2>1, <2>2, <2>3, <2>4, <2>5, Zenon DEF GapWith
<1>6. CASE TilePushed(q, n)
  <2>1. /\ s = 6 /\ q.bg_wnd_fifo = <<>>
        /\ n.bg_wnd_fetch_step = 7 /\ n.is_first_fetch = q.is_first_fetch
        /\ n.bg_wnd_fifo = TilePixels(q.tile)
    BY <1>6, Zenon DEF TilePushed, But, Names
  <2>2. m = 8 /\ k = 0
    <3>1. m = Fifo
      BY <2>1, TilePixelsFifo, Zenon DEF Drawable, Fetching
    <3> QED
      BY <1>0, <2>1, <3>1, Zenon DEF Fifo
  <2>3. 8 \in 0..8 /\ 8 # 0 /\ 8 - 1 = 7
    OBVIOUS
  <2>4. LaterGap(7, 7) <= LaterGap(6, 0) /\ FirstGap(7, 7) <= FirstGap(6, 0)
    <3>1. 6 \in 0..7
      OBVIOUS
    <3> QED
      BY <3>1, GapShrinks, Zenon
  <2> QED
    BY <1>0, <1>1, <2>1, <2>2, <2>3, <2>4, Zenon DEF GapWith
<1> QED
  BY <1>0, <1>3, <1>4, <1>5, <1>6, <1>2, BgTickCases, Zenon

\* What a tick of the background fetch leaves alone.
LEMMA BgTickKeeps ==
  ASSUME NEW q, DOMAIN q = Names, NEW n, n = BgTick(q)
  PROVE  /\ n.framebuffer_x = q.framebuffer_x /\ n.processed_pixels = q.processed_pixels
         /\ n.reached_window_x = q.reached_window_x
         /\ n.sprite_fifo = q.sprite_fifo
         /\ n.sprite_index = q.sprite_index
         /\ n.sprite_fetch_active = q.sprite_fetch_active
         /\ n.sprite_fetch_step = q.sprite_fetch_step
         /\ n.current_sprite = q.current_sprite
<1>1. CASE TileChosen(q, n)
  BY <1>1, Zenon DEF TileChosen, But, Names
<1>2. CASE FetchRepeated(q, n)
  BY <1>2, Zenon DEF FetchRepeated, But, Names
<1>3. CASE TilePushed(q, n)
  BY <1>3, Zenon DEF TilePushed, But, Names
<1>4. CASE FetchGoesOn(q, n)
  BY <1>4, Zenon DEF FetchGoesOn, But, Names
<1> QED
  BY <1>1, <1>2, <1>3, <1>4, BgTickCases, Zenon

LEMMA GapTypes ==
  ASSUME NEW q, Drawable(q), Len(q.bg_wnd_fifo) <= 7
  PROVE  /\ Gap(q) \in Nat
         /\ q.is_first_fetch => Gap(q) >= 6
         /\ WindowTicks(q) \in {0, 6}
         /\ ToDiscard(q.processed_pixels) \in Nat
         /\ q.framebuffer_x \in Nat /\ q.processed_pixels \in Nat /\ Width \in Nat
<1>1. /\ q.bg_wnd_fetch_step \in 0..7 /\ Len(q.bg_wnd_fifo) \in 0..7
      /\ q.is_first_fetch \in BOOLEAN
      /\ q.framebuffer_x \in Nat /\ q.processed_pixels \in Nat
  BY FifoLength, Zenon DEF Drawable, Counters, Flags
<1>2. Gap(q) \in Nat /\ (q.is_first_fetch => Gap(q) >= 6)
  BY <1>1, GapBounds, Zenon DEF Gap, GapWith
<1>3. WindowTicks(q) \in {0, 6}
  BY Zenon DEF WindowTicks
<1>4. ToDiscard(q.processed_pixels) \in Nat /\ Width \in Nat
  BY <1>1, FetcherAssumption DEF ToDiscard, FetcherAssumption
<1> QED
  BY <1>1, <1>2, <1>3, <1>4

\* What makes their sum at least one less.
LEMMA OneLess ==
  ASSUME NEW width \in Nat, NEW x \in Nat, NEW x2, NEW p \in Nat, NEW p2 \in Nat,
         NEW w \in {0, 6}, NEW w2 \in {0, 6}, NEW g \in Nat, NEW g2 \in Nat,
         \/ x2 = x /\ p2 + g2 < p + g /\ w2 = w
         \/ /\ x2 = x + 1 /\ p2 <= p
            /\ \/ g2 <= g /\ w2 = w
               \/ g2 <= g + 6 /\ w2 = 0 /\ w = 6
  PROVE  (width - x2) + p2 + w2 + g2 <= ((width - x) + p + w + g) - 1
OBVIOUS

\* A tick of the background fetch and of the LCD.
LEMMA FetchAndPush ==
  ASSUME Setup, NEW q, Drawable(q), Len(q.bg_wnd_fifo) <= 7, ~q.sprite_fetch_active,
         NEW n, n = Pushed(BgTick(q))
  PROVE  /\ Len(n.bg_wnd_fifo) <= 7
         /\ ~n.sprite_fetch_active
         /\ n.sprite_index = q.sprite_index
         /\ LineTicks(n) <= LineTicks(q) - 1
<1> DEFINE c == BgTick(q)
           m == Len(c.bg_wnd_fifo)
           x == q.framebuffer_x
           p == q.processed_pixels
<1>1. DOMAIN q = Names /\ Drawable(c) /\ DOMAIN c = Names /\ Drawable(n)
  BY BgTickDrawable, PushedDrawable, Zenon DEF Drawable
<1>2. /\ c.framebuffer_x = x /\ c.processed_pixels = p
      /\ c.reached_window_x = q.reached_window_x
      /\ c.sprite_index = q.sprite_index
      /\ c.sprite_fetch_active = q.sprite_fetch_active
  BY <1>1, BgTickKeeps, Zenon
<1>3. /\ c.bg_wnd_fetch_step \in 0..7
      /\ m \in 0..8
      /\ c.is_first_fetch \in BOOLEAN /\ (c.is_first_fetch => q.is_first_fetch)
      /\ m = 0 => GapWith(c.is_first_fetch, c.bg_wnd_fetch_step, 0) <= Gap(q) - 1
      /\ m # 0 => GapWith(c.is_first_fetch, c.bg_wnd_fetch_step, m - 1) <= Gap(q)
  BY FetchGap, Zenon
<1>4. c.bg_wnd_fifo \in Seq(BgPixel) /\ (c.bg_wnd_fifo = <<>> <=> m = 0)
  BY <1>1, FifoLength, Zenon DEF Drawable, Fifos
<1>5. /\ Gap(q) \in Nat /\ (q.is_first_fetch => Gap(q) >= 6)
      /\ WindowTicks(q) \in {0, 6} /\ ToDiscard(p) \in Nat
      /\ x \in Nat /\ p \in Nat /\ Width \in Nat
  BY GapTypes, Zenon
<1> HIDE DEF c, m, x, p
<1>6. ASSUME NEW x2, NEW p2, NEW g2, NEW w2,
             n.framebuffer_x = x2, n.processed_pixels = p2, Gap(n) = g2, WindowTicks(n) = w2,
             x2 \in Nat, ToDiscard(p2) \in Nat, g2 \in Nat, w2 \in {0, 6},
             x2 = x \/ x2 = x + 1,
             \/ /\ x2 = x /\ ToDiscard(p2) + g2 < ToDiscard(p) + Gap(q) /\ w2 = WindowTicks(q)
             \/ /\ x2 = x + 1 /\ ToDiscard(p2) <= ToDiscard(p)
                /\ \/ g2 <= Gap(q) /\ w2 = WindowTicks(q)
                   \/ g2 <= Gap(q) + 6 /\ w2 = 0 /\ WindowTicks(q) = 6
      PROVE  LineTicks(n) <= LineTicks(q) - 1
  <2>1. LineTicks(n) = (Width - x2) + ToDiscard(p2) + w2 + g2
    BY <1>6, Zenon DEF LineTicks
  <2>2. LineTicks(q) = (Width - x) + ToDiscard(p) + WindowTicks(q) + Gap(q)
    BY Zenon DEF LineTicks, x, p
  <2>3. (Width - x2) + ToDiscard(p2) + w2 + g2
          <= ((Width - x) + ToDiscard(p) + WindowTicks(q) + Gap(q)) - 1
    BY <1>5, <1>6, OneLess, Zenon
  <2> QED
    BY <2>1, <2>2, <2>3, Zenon
<1>7. /\ p + 1 \in Nat /\ x + 1 \in Nat
      /\ ToDiscard(p + 1) \in Nat /\ ToDiscard(p + 1) <= ToDiscard(p)
      /\ p < 7 => ToDiscard(p + 1) = ToDiscard(p) - 1
  BY <1>5 DEF ToDiscard
<1>8. CASE n = c /\ ~Pushes(c)
  <2>1. m = 0
    BY <1>2, <1>4, <1>8, Zenon DEF Pushes
  <2>2. Gap(n) = GapWith(c.is_first_fetch, c.bg_wnd_fetch_step, 0)
    BY <1>8, <2>1, Zenon DEF Gap, m
  <2>3. WindowTicks(n) = WindowTicks(q)
    BY <1>2, <1>8, Zenon DEF WindowTicks
  <2>4. Len(n.bg_wnd_fifo) = 0 /\ 0 <= 7
    <3>1. Len(n.bg_wnd_fifo) = 0
      BY <1>8, <2>1, Zenon DEF m
    <3> QED
      BY <3>1
  <2>5. Gap(n) \in Nat /\ Gap(n) <= Gap(q) - 1
    BY <1>1, <1>3, <2>1, <2>2, <2>4, GapTypes, Zenon
  <2>6. ToDiscard(p) + Gap(n) < ToDiscard(p) + Gap(q)
    BY <1>5, <2>5
  <2>7. n.framebuffer_x = x /\ n.processed_pixels = p
    BY <1>2, <1>8, Zenon
  <2>8. LineTicks(n) <= LineTicks(q) - 1
    BY <1>5, <1>6, <2>3, <2>5, <2>6, <2>7, Zenon
  <2> QED
    BY <1>2, <1>8, <2>4, <2>8, Zenon
<1>9. ASSUME c.bg_wnd_fifo # <<>>
      PROVE  Len(Tail(c.bg_wnd_fifo)) = m - 1 /\ m - 1 \in 0..7 /\ m # 0 /\ m - 1 <= 7
  <2>1. Len(Tail(c.bg_wnd_fifo)) = m - 1
    BY <1>4, <1>9, HeadTailProperties DEF m
  <2>2. m # 0
    BY <1>4, <1>9
  <2> QED
    BY <1>3, <2>1, <2>2
<1>10. CASE PixelDiscarded(c, n)
  <2>1. /\ n.bg_wnd_fifo = Tail(c.bg_wnd_fifo) /\ c.bg_wnd_fifo # <<>>
        /\ n.processed_pixels = p + 1 /\ n.framebuffer_x = x
        /\ n.reached_window_x = q.reached_window_x
        /\ n.is_first_fetch = c.is_first_fetch /\ n.bg_wnd_fetch_step = c.bg_wnd_fetch_step
        /\ n.sprite_index = q.sprite_index
        /\ n.sprite_fetch_active = q.sprite_fetch_active
        /\ p < scx % 8
    BY <1>2, <1>10, Zenon DEF PixelDiscarded, Discards, Pushes, But, Names
  <2>2. p < 7
    <3>1. scx \in 0..255
      BY Zenon DEF Setup
    <3>2. \A k \in 0..255 : \A l \in Nat : l < k % 8 => l < 7
      OBVIOUS
    <3> QED
      BY <1>5, <2>1, <3>1, <3>2, Zenon
  <2>3. Gap(n) = GapWith(c.is_first_fetch, c.bg_wnd_fetch_step, m - 1)
    BY <1>9, <2>1, Zenon DEF Gap
  <2>4. WindowTicks(n) = WindowTicks(q) /\ Len(n.bg_wnd_fifo) <= 7
    BY <1>9, <2>1, Zenon DEF WindowTicks
  <2>5. Gap(n) \in Nat /\ Gap(n) <= Gap(q)
    BY <1>1, <1>3, <1>9, <2>1, <2>3, <2>4, GapTypes, Zenon
  <2>6. ToDiscard(p + 1) + Gap(n) < ToDiscard(p) + Gap(q)
    BY <1>5, <1>7, <2>2, <2>5
  <2>7. LineTicks(n) <= LineTicks(q) - 1
    BY <1>5, <1>6, <1>7, <2>1, <2>4, <2>5, <2>6, Zenon
  <2> QED
    BY <2>1, <2>4, <2>7, Zenon
<1>11. CASE PixelDrawn(c, n)
  <2>1. /\ n.processed_pixels = p + 1 /\ n.framebuffer_x = x + 1
        /\ c.bg_wnd_fifo # <<>>
        /\ n.is_first_fetch = c.is_first_fetch
        /\ n.sprite_index = q.sprite_index
        /\ n.sprite_fetch_active = q.sprite_fetch_active
    BY <1>2, <1>11, Zenon DEF PixelDrawn, Draws, Pushes, Drawing, But, Names
  <2>2. CASE But(Drawing, c, n) /\ n.bg_wnd_fifo = Tail(c.bg_wnd_fifo)
    <3>1. /\ n.reached_window_x = q.reached_window_x
          /\ n.bg_wnd_fetch_step = c.bg_wnd_fetch_step
      BY <1>2, <2>2, Zenon DEF Drawing, But, Names
    <3>2. Gap(n) = GapWith(c.is_first_fetch, c.bg_wnd_fetch_step, m - 1)
      BY <1>9, <2>1, <2>2, <3>1, Zenon DEF Gap
    <3>3. WindowTicks(n) = WindowTicks(q) /\ Len(n.bg_wnd_fifo) <= 7
      BY <1>9, <2>1, <2>2, <3>1, Zenon DEF WindowTicks
    <3>4. Gap(n) \in Nat /\ Gap(n) <= Gap(q)
      BY <1>1, <1>3, <1>9, <2>1, <3>2, <3>3, GapTypes, Zenon
    <3>5. LineTicks(n) <= LineTicks(q) - 1
      BY <1>5, <1>6, <1>7, <2>1, <3>3, <3>4, Zenon
    <3> QED
      BY <2>1, <3>3, <3>5, Zenon
  <2>3. CASE /\ ~c.reached_window_x /\ n.bg_wnd_fifo = <<>>
             /\ n.reached_window_x = TRUE /\ n.bg_wnd_fetch_step = 0
    <3>1. Len(n.bg_wnd_fifo) = 0 /\ 0 <= 7 /\ 0 \in 0..7
      BY <2>3, EmptySeq
    <3>2. WindowTicks(n) = 0 /\ WindowTicks(q) = 6 /\ 0 \in {0, 6}
      BY <1>2, <2>3, Zenon DEF WindowTicks
    <3>3. Gap(n) = GapWith(c.is_first_fetch, 0, 0)
      BY <2>1, <2>3, <3>1, Zenon DEF Gap
    <3>4. LaterGap(0, 0) = 6 /\ FirstGap(0, 0) = 12
      BY <3>1, GapBounds, Zenon
    <3>5. Gap(n) \in Nat /\ Gap(n) <= Gap(q) + 6
      <4>1. CASE c.is_first_fetch
        <5>1. Gap(n) = 12 /\ Gap(q) >= 6
          BY <1>3, <1>5, <3>3, <3>4, <4>1, Zenon DEF GapWith
        <5> QED
          BY <1>5, <5>1
      <4>2. CASE ~c.is_first_fetch
        <5>1. Gap(n) = 6
          BY <3>3, <3>4, <4>2, Zenon DEF GapWith
        <5> QED
          BY <1>5, <5>1
      <4> QED
        BY <4>1, <4>2
    <3>6. LineTicks(n) <= LineTicks(q) - 1
      BY <1>5, <1>6, <1>7, <2>1, <3>2, <3>5, Zenon
    <3>7. Len(n.bg_wnd_fifo) <= 7
      BY <3>1
    <3> QED
      BY <2>1, <3>6, <3>7, Zenon
  <2> QED
    BY <1>11, <2>2, <2>3, Zenon DEF PixelDrawn
<1> QED
  BY <1>1, <1>8, <1>10, <1>11, PushedCases, Zenon DEF c

\* A line can be late only by what is left of it.
Punctual(q) ==
  /\ Len(q.bg_wnd_fifo) <= 7
  /\ q.sprite_fetch_active => q.bg_wnd_fetch_step = 0 /\ q.sprite_fetch_step >= 1

LEMMA TickTypes ==
  ASSUME Setup, NEW q, Drawable(q), Len(q.bg_wnd_fifo) <= 7
  PROVE  /\ LineTicks(q) \in Int
         /\ Len(sprite_buffer) \in Nat /\ q.sprite_index \in Nat
         /\ q.sprite_index <= Len(sprite_buffer)
         /\ SpriteTicks(q) \in 0..6
<1>1. /\ Gap(q) \in Nat /\ WindowTicks(q) \in Nat /\ ToDiscard(q.processed_pixels) \in Nat
      /\ q.framebuffer_x \in Nat /\ Width \in Nat
  <2>1. \A w \in {0, 6} : w \in Nat
    OBVIOUS
  <2> QED
    BY <2>1, GapTypes, Zenon
<1>2. LineTicks(q) \in Int
  BY <1>1 DEF LineTicks
<1>3. Len(sprite_buffer) \in Nat
  BY LenProperties, Zenon DEF Setup
<1>4. q.sprite_index \in 0..Len(sprite_buffer)
  BY Zenon DEF Drawable, Counters
<1>5. q.sprite_index \in Nat /\ q.sprite_index <= Len(sprite_buffer)
  BY <1>3, <1>4
<1>6. SpriteTicks(q) \in 0..6
  <2>1. q.sprite_fetch_step \in 0..6
    BY Zenon DEF Drawable, Counters
  <2>2. 0 \in 0..6 /\ \A k \in 0..6 : 6 - k \in 0..6
    OBVIOUS
  <2> QED
    BY <2>1, <2>2, Zenon DEF SpriteTicks
<1> QED
  BY <1>2, <1>3, <1>5, <1>6

\* Every tick leaves less to do.
LEMMA TickCosts ==
  ASSUME Setup, NEW q, Drawable(q), Punctual(q),
         NEW n, n = Pushed(BgTick(SpriteTick(BeginSprite(q))))
  PROVE  Punctual(n) /\ TicksLeft(n) <= TicksLeft(q) - 1
<1> DEFINE a == BeginSprite(q)
           b == SpriteTick(a)
<1>1. /\ DOMAIN q = Names /\ Drawable(a) /\ DOMAIN a = Names
      /\ Drawable(b) /\ DOMAIN b = Names /\ Drawable(n)
      /\ Drawable(BgTick(b)) /\ DOMAIN BgTick(b) = Names
  <2>1. Drawable(a) /\ Drawable(b)
    BY BeginDrawable, SpriteTickDrawable, Zenon
  <2>2. Drawable(BgTick(b))
    BY <2>1, BgTickDrawable, Zenon
  <2>3. Drawable(n)
    BY <2>2, PushedDrawable, Zenon
  <2> QED
    BY <2>1, <2>2, <2>3, Zenon DEF Drawable
<1>2. /\ LineTicks(q) \in Int /\ Len(sprite_buffer) \in Nat /\ q.sprite_index \in Nat
      /\ q.sprite_index <= Len(sprite_buffer) /\ SpriteTicks(q) \in 0..6
  BY TickTypes, Zenon DEF Punctual
<1> HIDE DEF b, a
<1>3. ASSUME b.sprite_fetch_active PROVE n = b
  <2>1. BgTick(b) = b
    BY <1>1, <1>3, BgTickCases, Zenon
  <2>2. ~Pushes(b)
    BY <1>3, Zenon DEF Pushes
  <2> QED
    BY <1>1, <2>1, <2>2, PushedCases, Zenon DEF b, a, PixelDiscarded, PixelDrawn, Discards, Draws
<1>4. CASE Begins(q) /\ Begun(q, a)
  <2>1. SpriteRead(a, b)
    <3>1. a.sprite_fetch_active /\ a.sprite_fetch_step = 0
      BY <1>4, Zenon DEF Begun
    <3>2. 0 # 6
      OBVIOUS
    <3> QED
      BY <1>1, <3>1, <3>2, SpriteTickCases, Zenon DEF b
  <2>2. /\ b.sprite_fetch_active = TRUE /\ b.sprite_fetch_step = 0 + 1
        /\ b.bg_wnd_fetch_step = 0 /\ b.sprite_index = q.sprite_index + 1
        /\ b.bg_wnd_fifo = q.bg_wnd_fifo /\ b.is_first_fetch = q.is_first_fetch
        /\ b.framebuffer_x = q.framebuffer_x /\ b.processed_pixels = q.processed_pixels
        /\ b.reached_window_x = q.reached_window_x
    BY <1>4, <2>1, Zenon DEF Begun, SpriteRead, But, Names
  <2>3. n = b
    BY <1>3, <2>2, Zenon
  <2>4. b.sprite_fetch_step = 1 /\ 1 >= 1
    <3>1. 0 + 1 = 1 /\ 1 >= 1
      OBVIOUS
    <3> QED
      BY <2>2, <3>1, Zenon
  <2>5. Punctual(n)
    BY <2>2, <2>3, <2>4, Zenon DEF Punctual
  <2>6. Gap(b) \in Nat /\ Gap(q) \in Nat /\ Gap(b) <= Gap(q) + 7
    <3> DEFINE k == Len(q.bg_wnd_fifo)
    <3>1. Gap(b) = GapWith(q.is_first_fetch, 0, k)
      BY <2>2, Zenon DEF Gap
    <3>2. /\ LaterGap(0, k) <= 7 /\ FirstGap(0, k) <= 12
      <4>1. k \in 0..7 /\ 0 \in 0..7
        BY FifoLength DEF Punctual
      <4> QED
        BY <4>1, GapBounds, Zenon
    <3>3. Gap(b) \in Nat /\ Gap(q) \in Nat /\ (q.is_first_fetch => Gap(q) >= 6)
      BY <1>1, <2>3, <2>5, GapTypes, Zenon DEF Punctual
    <3>4. CASE q.is_first_fetch
      <4>1. Gap(b) <= 12 /\ Gap(q) >= 6
        BY <3>1, <3>2, <3>3, <3>4, Zenon DEF GapWith
      <4> QED
        BY <3>3, <4>1
    <3>5. CASE ~q.is_first_fetch
      <4>1. Gap(b) <= 7
        BY <3>1, <3>2, <3>5, Zenon DEF GapWith
      <4> QED
        BY <3>3, <4>1
    <3> QED
      BY <3>3, <3>4, <3>5
  <2>7. LineTicks(b) <= LineTicks(q) + 7
    <3> DEFINE rest == (Width - q.framebuffer_x) + ToDiscard(q.processed_pixels) + WindowTicks(q)
    <3>1. LineTicks(b) = rest + Gap(b) /\ LineTicks(q) = rest + Gap(q)
      BY <2>2, Zenon DEF LineTicks, WindowTicks
    <3>2. rest \in Int
      <4>1. /\ q.framebuffer_x \in Nat /\ Width \in Nat /\ ToDiscard(q.processed_pixels) \in Nat
            /\ WindowTicks(q) \in {0, 6}
        BY GapTypes, Zenon DEF Punctual
      <4> QED
        BY <4>1
    <3> HIDE DEF rest
    <3> QED
      BY <2>6, <3>1, <3>2
  <2>8. SpriteTicks(b) = 6 - 1 /\ SpriteTicks(q) = 0
    BY <1>4, <2>2, <2>4, Zenon DEF SpriteTicks, Begins
  <2>9. LineTicks(b) \in Int
    BY <1>1, <2>2, TickTypes, Zenon DEF Punctual
  <2>10. TicksLeft(b) <= TicksLeft(q) - 1
    BY <1>2, <2>2, <2>7, <2>8, <2>9 DEF TicksLeft
  <2> QED
    BY <2>3, <2>5, <2>10, Zenon
<1>5. CASE a = q /\ q.sprite_fetch_active /\ q.sprite_fetch_step # 6 /\ SpriteRead(q, b)
  <2>1. /\ b.sprite_fetch_active = q.sprite_fetch_active
        /\ b.sprite_fetch_step = q.sprite_fetch_step + 1
        /\ b.bg_wnd_fetch_step = q.bg_wnd_fetch_step /\ b.sprite_index = q.sprite_index
        /\ b.bg_wnd_fifo = q.bg_wnd_fifo /\ b.is_first_fetch = q.is_first_fetch
        /\ b.framebuffer_x = q.framebuffer_x /\ b.processed_pixels = q.processed_pixels
        /\ b.reached_window_x = q.reached_window_x
    BY <1>5, Zenon DEF SpriteRead, But, Names
  <2>2. n = b
    BY <1>3, <1>5, <2>1, Zenon
  <2>3. q.sprite_fetch_step \in 0..6 /\ q.sprite_fetch_step >= 1 /\ q.bg_wnd_fetch_step = 0
    BY <1>5, Zenon DEF Punctual, Drawable, Counters
  <2>4. q.sprite_fetch_step + 1 >= 1
    BY <2>3
  <2>5. Punctual(n)
    BY <2>1, <2>2, <2>3, <2>4, Zenon DEF Punctual
  <2>6. LineTicks(b) = LineTicks(q)
    BY <2>1, Zenon DEF LineTicks, WindowTicks, Gap
  <2>7. SpriteTicks(b) = 6 - (q.sprite_fetch_step + 1) /\ SpriteTicks(q) = 6 - q.sprite_fetch_step
    BY <1>5, <2>1, Zenon DEF SpriteTicks
  <2>8. TicksLeft(b) = TicksLeft(q) - 1
    BY <1>2, <2>1, <2>3, <2>6, <2>7 DEF TicksLeft
  <2>9. TicksLeft(q) \in Int
    BY <1>2 DEF TicksLeft
  <2>10. TicksLeft(b) <= TicksLeft(q) - 1
    BY <2>8, <2>9
  <2> QED
    BY <2>2, <2>5, <2>10, Zenon
<1>6. ASSUME ~b.sprite_fetch_active, Len(b.bg_wnd_fifo) <= 7, b.sprite_index = q.sprite_index,
             LineTicks(b) = LineTicks(q)
      PROVE  Punctual(n) /\ TicksLeft(n) <= TicksLeft(q) - 1
  <2>1. /\ Len(n.bg_wnd_fifo) <= 7
        /\ ~n.sprite_fetch_active
        /\ n.sprite_index = q.sprite_index
        /\ LineTicks(n) <= LineTicks(q) - 1
    <3>1. n = Pushed(BgTick(b))
      BY Zenon DEF b, a
    <3> QED
      BY <1>1, <1>6, <3>1, FetchAndPush, Zenon
  <2>2. Punctual(n)
    BY <2>1, Zenon DEF Punctual
  <2>3. LineTicks(n) \in Int /\ SpriteTicks(n) = 0
    BY <1>1, <2>1, TickTypes, Zenon DEF SpriteTicks
  <2>4. TicksLeft(n) <= TicksLeft(q) - 1
    BY <1>2, <2>1, <2>3 DEF TicksLeft
  <2> QED
    BY <2>2, <2>4
<1>7. CASE a = q /\ q.sprite_fetch_active /\ q.sprite_fetch_step = 6 /\ SpriteDone(q, b)
  <2>1. /\ ~b.sprite_fetch_active
        /\ b.bg_wnd_fetch_step = q.bg_wnd_fetch_step /\ b.sprite_index = q.sprite_index
        /\ b.bg_wnd_fifo = q.bg_wnd_fifo /\ b.is_first_fetch = q.is_first_fetch
        /\ b.framebuffer_x = q.framebuffer_x /\ b.processed_pixels = q.processed_pixels
        /\ b.reached_window_x = q.reached_window_x
    BY <1>7, Zenon DEF SpriteDone, But, Names
  <2>2. LineTicks(b) = LineTicks(q)
    BY <2>1, Zenon DEF LineTicks, WindowTicks, Gap
  <2> QED
    BY <1>6, <2>1, <2>2, Zenon DEF Punctual
<1>8. CASE a = q /\ ~q.sprite_fetch_active /\ b = q
  BY <1>6, <1>8, Zenon DEF Punctual
<1> QED
  <2>1. (Begins(q) /\ Begun(q, a)) \/ a = q
    BY <1>1, BeginCases, Zenon DEF a
  <2>2. a = q => \/ ~q.sprite_fetch_active /\ b = q
                 \/ q.sprite_fetch_active /\ q.sprite_fetch_step # 6 /\ SpriteRead(q, b)
                 \/ q.sprite_fetch_active /\ q.sprite_fetch_step = 6 /\ SpriteDone(q, b)
    BY <1>1, SpriteTickCases, Zenon DEF b
  <2> QED
    BY <1>4, <1>5, <1>7, <1>8, <2>1, <2>2, Zenon

LineInv ==
  /\ Punctual(d)
  /\ mode \in {"OAM_SCAN", "HBLANK"} =>
       /\ d.framebuffer_x = 0 /\ d.processed_pixels = 0
       /\ d.bg_wnd_fifo = <<>> /\ d.is_first_fetch
  /\ line.ticks <= LineLimit
  /\ mode = "DRAW" => line.ticks + TicksLeft(d) <= LineLimit

LEMMA EmptyFifo == Len(<<>>) = 0 /\ Len(<<>>) <= 7
BY EmptySeq

\* While a line is drawn there is at least a pixel left.
LEMMA SomeLeft ==
  ASSUME TypeInv, Punctual(d)
  PROVE  TicksLeft(d) \in Int /\ TicksLeft(d) >= 1
<1>1. /\ Setup /\ Drawable(d) /\ d.framebuffer_x < Width /\ Len(d.bg_wnd_fifo) <= 7
  BY Zenon DEF TypeInv, Punctual
<1>2. /\ Gap(d) \in Nat /\ WindowTicks(d) \in {0, 6} /\ ToDiscard(d.processed_pixels) \in Nat
      /\ d.framebuffer_x \in Nat /\ Width \in Nat
      /\ Len(sprite_buffer) \in Nat /\ d.sprite_index \in Nat
      /\ d.sprite_index <= Len(sprite_buffer)
      /\ SpriteTicks(d) \in 0..6
  BY <1>1, GapTypes, TickTypes, Zenon
<1>3. LineTicks(d) \in Int /\ LineTicks(d) >= 1
  BY <1>1, <1>2 DEF LineTicks
<1> QED
  BY <1>2, <1>3 DEF TicksLeft

LEMMA LineTick == TypeInv /\ LineInv /\ DrawTick => LineInv'
<1> SUFFICES ASSUME TypeInv, LineInv, DrawTick PROVE LineInv'
  OBVIOUS
<1>1. /\ Setup /\ Drawable(d) /\ mode = "DRAW" /\ line.ticks \in Nat /\ Punctual(d)
      /\ line.ticks + TicksLeft(d) <= LineLimit
      /\ UNCHANGED sprite_buffer
  BY Zenon DEF TypeInv, LineInv, DrawTick
<1>2. line'.ticks \in Nat /\ line'.ticks <= line.ticks + 1
  BY <1>1, LineAfterTick, LineLonger, Zenon
<1>3. LineLimit \in Nat /\ TicksLeft(d) \in Int /\ TicksLeft(d) >= 1
  <2>1. LineLimit \in Nat
    BY FetcherAssumption DEF FetcherAssumption, LineLimit
  <2> QED
    BY <1>1, <2>1, SomeLeft, Zenon
<1> DEFINE n == Pushed(Fetched)
<1>4. Drawable(n) /\ Punctual(n) /\ TicksLeft(n) <= TicksLeft(d) - 1
  <2>1. Drawable(Fetched)
    BY <1>1, FetchedFields, Zenon DEF Fetched
  <2>2. Drawable(n)
    BY <1>1, <2>1, PushedDrawable, Zenon
  <2> QED
    BY <1>1, <2>2, TickCosts, Zenon DEF Fetched
<1>5. line'.ticks <= LineLimit
  BY <1>1, <1>2, <1>3
<1>6. CASE n.framebuffer_x >= Width
  <2>1. mode' = "HBLANK" /\ d' = Finished(n)
    BY <1>6, Zenon DEF DrawTick
  <2>2. /\ d'.framebuffer_x = 0 /\ d'.processed_pixels = 0
        /\ d'.bg_wnd_fifo = <<>> /\ d'.is_first_fetch = TRUE
        /\ d'.sprite_fetch_active = FALSE
    BY <1>4, <2>1, FinishedFields, Zenon DEF Drawable, LineDone
  <2>3. Punctual(d)'
    BY <2>2, EmptyFifo, Zenon DEF Punctual
  <2>4. mode' # "DRAW"
    BY <2>1
  <2> QED
    BY <1>5, <2>2, <2>3, <2>4, Zenon DEF LineInv
<1>7. CASE ~(n.framebuffer_x >= Width)
  <2>1. mode' = "DRAW" /\ d' = n
    BY <1>1, <1>7, Zenon DEF DrawTick
  <2> HIDE DEF n
  <2>2. TicksLeft(d)' = TicksLeft(n)
    BY <1>1, <2>1, Zenon DEF TicksLeft, LineTicks, SpriteTicks, WindowTicks, Gap
  <2>3. TicksLeft(n) \in Int
    <3>1. /\ LineTicks(n) \in Int /\ Len(sprite_buffer) \in Nat /\ n.sprite_index \in Nat
          /\ SpriteTicks(n) \in 0..6
      BY <1>1, <1>4, TickTypes, Zenon DEF Punctual
    <3> QED
      BY <3>1 DEF TicksLeft
  <2>4. line'.ticks + TicksLeft(n) <= LineLimit
    BY <1>1, <1>2, <1>3, <1>4, <2>3
  <2>5. Punctual(d)'
    BY <1>4, <2>1, Zenon DEF Punctual
  <2>6. mode' \notin {"OAM_SCAN", "HBLANK"}
    BY <2>1
  <2> QED
    BY <1>5, <2>2, <2>4, <2>5, <2>6, Zenon DEF LineInv
<1> QED
  BY <1>6, <1>7

LEMMA LineHblank == TypeInv /\ LineInv /\ HblankEnds => LineInv'
<1> SUFFICES ASSUME TypeInv, LineInv, HblankEnds PROVE LineInv'
  OBVIOUS
<1>1. /\ line' = line /\ mode' = "OAM_SCAN" /\ mode = "HBLANK" /\ DOMAIN d = Names
      /\ \/ d' = [d EXCEPT !.reached_window_x = FALSE]
         \/ d' = [d EXCEPT !.reached_window_x = FALSE, !.window_line_counter = 0]
  BY Zenon DEF HblankEnds, TypeInv, Drawable
<1>2. /\ d'.framebuffer_x = d.framebuffer_x /\ d'.processed_pixels = d.processed_pixels
      /\ d'.bg_wnd_fifo = d.bg_wnd_fifo /\ d'.is_first_fetch = d.is_first_fetch
      /\ d'.sprite_fetch_active = d.sprite_fetch_active
      /\ d'.bg_wnd_fetch_step = d.bg_wnd_fetch_step
      /\ d'.sprite_fetch_step = d.sprite_fetch_step
  BY <1>1, Zenon DEF Names
<1>3. mode' # "DRAW" /\ mode \in {"OAM_SCAN", "HBLANK"}
  BY <1>1
<1> QED
  BY <1>1, <1>2, <1>3, Zenon DEF LineInv, Punctual

LEMMA LineScan == TypeInv /\ LineInv /\ ScanEnds => LineInv'
<1> SUFFICES ASSUME TypeInv, LineInv, ScanEnds PROVE LineInv'
  OBVIOUS
<1>1. /\ mode = "OAM_SCAN" /\ mode' = "DRAW" /\ d' = [d EXCEPT !.sprite_index = 0]
      /\ DOMAIN d = Names /\ Drawable(d) /\ Setup /\ Punctual(d)
      /\ d.framebuffer_x = 0 /\ d.processed_pixels = 0
      /\ d.bg_wnd_fifo = <<>> /\ d.is_first_fetch
  <2>1. mode = "OAM_SCAN" /\ mode' = "DRAW" /\ d' = [d EXCEPT !.sprite_index = 0]
    BY Zenon DEF ScanEnds
  <2>2. mode \in {"OAM_SCAN", "HBLANK"}
    BY <2>1
  <2> QED
    BY <2>1, <2>2, Zenon DEF LineInv, TypeInv, Drawable
<1>2. /\ d'.sprite_index = 0
      /\ d'.framebuffer_x = 0 /\ d'.processed_pixels = 0
      /\ d'.bg_wnd_fifo = <<>> /\ d'.is_first_fetch = d.is_first_fetch
      /\ d'.sprite_fetch_active = d.sprite_fetch_active
      /\ d'.bg_wnd_fetch_step = d.bg_wnd_fetch_step
      /\ d'.sprite_fetch_step = d.sprite_fetch_step
      /\ d'.reached_window_x = d.reached_window_x
  BY <1>1, Zenon DEF Names
<1>3. line'.ticks = 0
  BY Zenon DEF ScanEnds, NewLine
<1>4. Punctual(d)'
  BY <1>1, <1>2, Zenon DEF Punctual
<1>5. Gap(d)' = FirstGap(d.bg_wnd_fetch_step, 0)
  BY <1>1, <1>2, EmptyFifo, Zenon DEF Gap, GapWith
<1>6. WindowTicks(d)' \in {0, 6}
  BY Zenon DEF WindowTicks
<1>7. Gap(d)' \in Nat /\ SpriteTicks(d)' \in Nat /\ Gap(d)' + SpriteTicks(d)' <= 17
  <2>1. d.bg_wnd_fetch_step \in 0..7 /\ d.sprite_fetch_step \in 0..6
    BY <1>1, Zenon DEF Drawable, Counters
  <2>2. FirstGap(d.bg_wnd_fetch_step, 0) \in Nat /\ FirstGap(d.bg_wnd_fetch_step, 0) <= 13
        /\ FirstGap(0, 0) = 12
    <3>1. 0 \in 0..7
      OBVIOUS
    <3> QED
      BY <2>1, <3>1, GapBounds, Zenon
  <2>3. CASE d.sprite_fetch_active
    <3>1. d.sprite_fetch_step >= 1 /\ d.bg_wnd_fetch_step = 0
      BY <1>1, <2>3, Zenon DEF Punctual
    <3>2. SpriteTicks(d)' = 6 - d.sprite_fetch_step
      BY <1>2, <2>3, Zenon DEF SpriteTicks
    <3>3. Gap(d)' = 12
      BY <1>5, <2>2, <3>1, Zenon
    <3> QED
      BY <2>1, <3>1, <3>2, <3>3
  <2>4. CASE ~d.sprite_fetch_active
    <3>1. SpriteTicks(d)' = 0
      BY <1>2, <2>4, Zenon DEF SpriteTicks
    <3> QED
      BY <1>5, <2>2, <3>1
  <2> QED
    BY <2>3, <2>4
<1>8. Len(sprite_buffer') \in Nat /\ Len(sprite_buffer') <= LineSprites
  BY ScanSettings, LenProperties, Zenon DEF IsList
<1>9. TicksLeft(d)' =
        ((Width - 0) + ToDiscard(0) + WindowTicks(d)' + Gap(d)')
        + 13 * (Len(sprite_buffer') - 0) + SpriteTicks(d)'
  BY <1>2, Zenon DEF TicksLeft, LineTicks
<1>10. ToDiscard(0) = 7
  BY DEF ToDiscard
<1>11. 0 + TicksLeft(d)' <= LineLimit
  BY <1>6, <1>7, <1>8, <1>9, <1>10, FetcherAssumption DEF LineLimit, FetcherAssumption
<1>12. 0 <= LineLimit /\ mode' \notin {"OAM_SCAN", "HBLANK"}
  BY <1>1, FetcherAssumption DEF LineLimit, FetcherAssumption
<1> QED
  BY <1>3, <1>4, <1>11, <1>12, Zenon DEF LineInv

LEMMA LineNext == TypeInv /\ LineInv /\ [Next]_vars => LineInv'
<1> SUFFICES ASSUME TypeInv, LineInv, [Next]_vars PROVE LineInv'
  OBVIOUS
<1>1. CASE SwitchOff
  <2>1. mode' = "OFF" /\ UNCHANGED <<d, line>>
    BY <1>1, Zenon DEF SwitchOff
  <2>2. mode' # "DRAW" /\ mode' \notin {"OAM_SCAN", "HBLANK"}
    BY <2>1
  <2> QED
    BY <2>1, <2>2, Zenon DEF LineInv, Punctual
<1>2. CASE SwitchOn
  <2>1. /\ mode' = "OAM_SCAN" /\ UNCHANGED line /\ DOMAIN d = Names
        /\ d' = [d EXCEPT !.framebuffer_x = 0, !.processed_pixels = 0, !.fetch_x = 0,
                          !.is_first_fetch = TRUE, !.bg_wnd_fifo = <<>>, !.sprite_fifo = <<>>]
    BY <1>2, Zenon DEF SwitchOn, TypeInv, Drawable
  <2>2. /\ d'.framebuffer_x = 0 /\ d'.processed_pixels = 0
        /\ d'.bg_wnd_fifo = <<>> /\ d'.is_first_fetch = TRUE
        /\ d'.sprite_fetch_active = d.sprite_fetch_active
        /\ d'.bg_wnd_fetch_step = d.bg_wnd_fetch_step
        /\ d'.sprite_fetch_step = d.sprite_fetch_step
    BY <2>1, Zenon DEF Names
  <2>3. mode' # "DRAW"
    BY <2>1
  <2> QED
    BY <2>1, <2>2, <2>3, EmptyFifo, Zenon DEF LineInv, Punctual
<1>3. CASE Change
  <2>1. /\ UNCHANGED <<mode, sprite_buffer, d>> /\ DOMAIN line = LineFields
        /\ line' = [line EXCEPT !.changes = @ + 1, !.steady = FALSE, !.merged = <<>>]
    BY <1>3, Zenon DEF Change, TypeInv
  <2>2. line'.ticks = line.ticks
    BY <2>1, Zenon DEF LineFields
  <2> QED
    BY <2>1, <2>2, Zenon
       DEF LineInv, Punctual, TicksLeft, LineTicks, SpriteTicks, WindowTicks, Gap
<1>4. CASE UNCHANGED vars
  <2>1. UNCHANGED <<mode, sprite_buffer, d, line>>
    BY <1>4, Zenon DEF vars
  <2> QED
    BY <2>1, Zenon DEF LineInv, Punctual, TicksLeft, LineTicks, SpriteTicks, WindowTicks, Gap
<1> QED
  BY <1>1, <1>2, <1>3, <1>4, LineTick, LineHblank, LineScan, Zenon DEF Next

LEMMA LineInit == Init => LineInv
<1> SUFFICES ASSUME Init PROVE LineInv
  OBVIOUS
<1>1. /\ mode = "OFF" /\ d.bg_wnd_fifo = <<>> /\ d.sprite_fetch_active = FALSE
      /\ line.ticks = 0
  BY Zenon DEF Init, NewLine
<1>2. mode # "DRAW" /\ mode \notin {"OAM_SCAN", "HBLANK"} /\ 0 <= LineLimit
  BY <1>1, FetcherAssumption DEF LineLimit, FetcherAssumption
<1> QED
  BY <1>1, <1>2, EmptyFifo, Zenon DEF LineInv, Punctual

\* A line takes its pixels, its sprites, its window and its first fetches, and
\* no more than that: 320 ticks with 160 pixels and ten sprites, so that its
\* 456 are never over before it is, whatever registers are written meanwhile.
THEOREM LineFitsCorrect == Spec => []LineFits
<1>1. Init => LineInv
  BY LineInit
<1>2. TypeInv /\ LineInv /\ [Next]_vars => LineInv'
  BY LineNext
<1>3. LineInv => LineFits
  BY Zenon DEF LineInv, LineFits
<1> QED
  BY <1>1, <1>2, <1>3, TypeInvHolds, PTL DEF Spec

-----------------------------------------------------------------------------
(* What a steady line shows.  n is the number of sprites that are in the   *)
(* sprite FIFO or went through it: they are the first n of the list.       *)

SpriteX(k) == oam[sprite_buffer[k]].x

\* The pixel at which the k-th sprite is fetched at the latest.
Due(k) == Max({0, SpriteX(k) - 8}) + (k - 1)

\* None of the first n sprites has an opaque pixel at x.
Clear(x, n) == \A k \in 1..n : ~Opaque(sprite_buffer[k], x)

FirstAt(k, x) == Opaque(sprite_buffer[k], x) /\ Clear(x, k - 1)

\* Pixel p of the sprite FIFO is right for x.
Shows(p, x, n) ==
  IF p.own
  THEN \/ ~p.opaque /\ Clear(x, n)
       \/ p.opaque /\ \E k \in 1..n : p.sprite = sprite_buffer[k] /\ FirstAt(k, x)
  ELSE x < Fifo - 1 /\ (p.opaque \/ Clear(x, n))

SpritesShown(q, n) ==
  /\ \A i \in 1..Len(q.sprite_fifo) : Shows(q.sprite_fifo[i], q.framebuffer_x + (i - 1), n)
  /\ \A x \in Nat : x >= q.framebuffer_x + Len(q.sprite_fifo) => Clear(x, n)

SpriteFetched(q, n) ==
  /\ q.sprite_index = IF q.sprite_fetch_active THEN n + 1 ELSE n
  /\ q.sprite_fetch_active =>
       /\ q.current_sprite = sprite_buffer[n + 1]
       /\ SpriteX(n + 1) <= q.framebuffer_x + 8
       /\ q.sprite_fetch_step >= 3 => q.lo = oam[q.current_sprite].lo
       /\ q.sprite_fetch_step >= 5 => q.hi = oam[q.current_sprite].hi

InTime(q, n) == obj_enable /\ n < Len(sprite_buffer) => q.framebuffer_x <= Due(n + 1)

\* The pixel of the background or the window that is right for x.
RightPixel(x) ==
  IF x < WindowStart
  THEN [window |-> FALSE, column |-> (scx + x) % (Fifo * MapWidth)]
  ELSE [window |-> TRUE, column |-> x - WindowStart]

\* The column of the i-th pixel since the line or the window began.
BackgroundColumn(i) == (Fifo * (scx \div Fifo) + i) % (Fifo * MapWidth)

Scrolled(q) ==
  /\ q.framebuffer_x < WindowStart
  /\ IF q.processed_pixels < scx % 8 THEN q.framebuffer_x = 0
     ELSE q.processed_pixels = q.framebuffer_x + (scx % 8)
  /\ q.processed_pixels + Len(q.bg_wnd_fifo) = Fifo * q.fetch_x
  /\ \A i \in 1..Len(q.bg_wnd_fifo) :
       q.bg_wnd_fifo[i] = [window |-> FALSE, column |-> BackgroundColumn(q.processed_pixels + (i - 1))]

InWindow(q) ==
  /\ q.framebuffer_x >= WindowStart
  /\ q.processed_pixels >= scx % 8
  /\ (q.framebuffer_x - WindowStart) + Len(q.bg_wnd_fifo) = Fifo * q.fetch_x
  /\ \A i \in 1..Len(q.bg_wnd_fifo) :
       q.bg_wnd_fifo[i] = [window |-> TRUE, column |-> (q.framebuffer_x - WindowStart) + (i - 1)]

BackgroundShown(q) ==
  /\ IF q.reached_window_x THEN InWindow(q) ELSE Scrolled(q)
  /\ q.bg_wnd_fetch_step \in 1..6 => q.tile = TileAt(q)

Fetches(n) ==
  /\ line.merged \in Seq([sprite: Nat, at: Nat]) /\ Len(line.merged) = n
  /\ n <= Len(sprite_buffer)
  /\ \A k \in 1..n : /\ line.merged[k].sprite = sprite_buffer[k]
                     /\ obj_enable => line.merged[k].at <= Due(k)

FetchedBy(x) == \A k \in 1..Len(line.merged) : line.merged[k].at <= x

PixelShown ==
  shown # Nothing =>
    /\ shown.x \in Nat /\ FetchedBy(shown.x)
    /\ Shows(shown.obj, shown.x, Len(line.merged))
    /\ shown.bg = RightPixel(shown.x)

\* Between two lines the FIFO holds what the last line left.
Leftovers(q) ==
  /\ Len(q.sprite_fifo) < Fifo
  /\ \A i \in 1..Len(q.sprite_fifo) : ~q.sprite_fifo[i].own

\* What a steady line has shown, and what it goes on with.
LineShown == IsList(oam, sprite_buffer) /\ Fetches(Len(line.merged)) /\ PixelShown

LineGoesOn ==
  /\ FetchedBy(d.framebuffer_x)
  /\ SpriteFetched(d, Len(line.merged)) /\ SpritesShown(d, Len(line.merged))
  /\ InTime(d, Len(line.merged)) /\ BackgroundShown(d)

PictureInv ==
  /\ line.steady \in BOOLEAN
  /\ mode \in {"OAM_SCAN", "HBLANK"} => d.fetch_x = 0 /\ Leftovers(d)
  /\ mode \in {"OFF", "OAM_SCAN"} => shown = Nothing
  /\ mode \in {"DRAW", "HBLANK"} /\ line.steady => LineShown
  /\ mode = "DRAW" /\ line.steady => LineGoesOn

LEMMA AtLeastZero == \A a \in Int : Max({0, a}) = IF a >= 0 THEN a ELSE 0
BY DEF Max

LEMMA ListedSprites ==
  ASSUME Setup, NEW k \in 1..Len(sprite_buffer)
  PROVE  /\ sprite_buffer[k] \in DOMAIN oam /\ sprite_buffer[k] \in Nat /\ sprite_buffer[k] # 0
         /\ oam[sprite_buffer[k]] \in Sprite
         /\ SpriteX(k) \in Nat
         /\ oam[sprite_buffer[k]].lo \in Pattern /\ oam[sprite_buffer[k]].hi \in Pattern
<1>1. sprite_buffer[k] \in DOMAIN oam
  BY ElementOfSeq DEF Setup
<1>2. sprite_buffer[k] \in Nat /\ sprite_buffer[k] # 0
  BY <1>1 DEF Setup
<1>3. oam[sprite_buffer[k]] \in Sprite
  BY <1>1 DEF Setup
<1>4. \A x \in Int : x >= 0 => x \in Nat
  OBVIOUS
<1> QED
  BY <1>1, <1>2, <1>3, <1>4, SpriteFields, Zenon DEF SpriteX

\* Each sprite has a pixel more than the one before it.
LEMMA DueInOrder ==
  ASSUME Setup, IsList(oam, sprite_buffer),
         NEW j \in 1..Len(sprite_buffer), NEW k \in 1..Len(sprite_buffer)
  PROVE  /\ Due(k) \in Nat
         /\ SpriteX(k) - 8 <= Due(k)
         /\ j < k => Due(j) + 1 <= Due(k)
<1>1. SpriteX(j) \in Nat /\ SpriteX(k) \in Nat /\ j \in Nat /\ k \in Nat /\ 1 <= j /\ 1 <= k
  <2>1. SpriteX(j) \in Nat /\ SpriteX(k) \in Nat
    BY ListedSprites, Zenon
  <2> QED
    BY <2>1
<1>2. j < k => SpriteX(j) <= SpriteX(k)
  <2>1. j < k => Before(oam, sprite_buffer[j], sprite_buffer[k])
    BY Zenon DEF IsList
  <2> QED
    BY <1>1, <2>1 DEF Before, SpriteX
<1> DEFINE x == SpriteX(j)
           y == SpriteX(k)
<1>3. /\ Due(j) = (IF x >= 8 THEN x - 8 ELSE 0) + (j - 1)
      /\ Due(k) = (IF y >= 8 THEN y - 8 ELSE 0) + (k - 1)
  <2>1. x - 8 \in Int /\ y - 8 \in Int
    BY <1>1
  <2>2. /\ Max({0, x - 8}) = IF x - 8 >= 0 THEN x - 8 ELSE 0
        /\ Max({0, y - 8}) = IF y - 8 >= 0 THEN y - 8 ELSE 0
    BY <2>1, AtLeastZero, Zenon
  <2>3. Due(j) = Max({0, x - 8}) + (j - 1) /\ Due(k) = Max({0, y - 8}) + (k - 1)
    BY Zenon DEF Due
  <2> HIDE DEF x, y
  <2> QED
    BY <1>1, <2>2, <2>3 DEF x, y
<1> QED
  BY <1>1, <1>2, <1>3

\* A sprite has its pixels in the eight columns from X - 8 on.
LEMMA OpaqueColumns ==
  ASSUME Setup, NEW k \in 1..Len(sprite_buffer), NEW x \in Int
  PROVE  /\ Opaque(sprite_buffer[k], x)
              <=> ((x + 8) - SpriteX(k)) \in oam[sprite_buffer[k]].lo \union oam[sprite_buffer[k]].hi
         /\ Opaque(sprite_buffer[k], x) => ((x + 8) - SpriteX(k)) \in 0..(Fifo - 1)
<1>1. /\ SpriteX(k) \in Nat
      /\ oam[sprite_buffer[k]].lo \in Pattern /\ oam[sprite_buffer[k]].hi \in Pattern
  BY ListedSprites, Zenon
<1>2. x + 8 - SpriteX(k) = (x + 8) - SpriteX(k)
  BY <1>1
<1>3. Opaque(sprite_buffer[k], x)
        <=> ((x + 8) - SpriteX(k)) \in oam[sprite_buffer[k]].lo \union oam[sprite_buffer[k]].hi
  BY <1>2, Zenon DEF Opaque, SpriteX
<1>4. \A c : c \in oam[sprite_buffer[k]].lo \union oam[sprite_buffer[k]].hi => c \in 0..(Fifo - 1)
  BY <1>1, Zenon DEF Pattern
<1> QED
  BY <1>3, <1>4, Zenon

\* The first of the sprites fetched that is opaque at x is the winner.
LEMMA WinnerIsFirst ==
  ASSUME Setup, IsList(oam, sprite_buffer), NEW x \in Int,
         Fetches(Len(line.merged)), FetchedBy(x)
  PROVE  /\ Clear(x, Len(line.merged)) => Winner(x) = 0
         /\ \A k \in 1..Len(line.merged) : FirstAt(k, x) => Winner(x) = sprite_buffer[k]
<1> DEFINE n == Len(line.merged)
           there == {k \in DOMAIN line.merged :
                       line.merged[k].at <= x /\ Opaque(line.merged[k].sprite, x)}
           Least(k) == \A m \in there :
                         m = k \/ Before(oam, line.merged[k].sprite, line.merged[m].sprite)
<1>1. /\ n \in Nat /\ DOMAIN line.merged = 1..n /\ n <= Len(sprite_buffer)
      /\ Len(sprite_buffer) \in Nat
  BY LenProperties DEF Fetches, Setup
<1>2. \A k \in 1..n : k \in 1..Len(sprite_buffer) /\ line.merged[k].sprite = sprite_buffer[k]
  BY <1>1 DEF Fetches
<1>3. there = {k \in 1..n : Opaque(sprite_buffer[k], x)}
  BY <1>1, <1>2, Zenon DEF FetchedBy
<1>4. Winner(x) = IF there = {} THEN 0 ELSE line.merged[CHOOSE k \in there : Least(k)].sprite
  BY Zenon DEF Winner
<1>5. Clear(x, n) => there = {}
  BY <1>3, Zenon DEF Clear
<1>6. ASSUME NEW k \in 1..n, FirstAt(k, x) PROVE Winner(x) = sprite_buffer[k]
  <2>1. k \in there /\ \A m \in there : m = k \/ k < m
    <3>1. ASSUME NEW m \in there PROVE ~(m < k)
      <4>1. m < k => m \in 1..(k - 1)
        BY <1>1, <1>3
      <4>2. m \in 1..(k - 1) => ~Opaque(sprite_buffer[m], x)
        BY <1>6, Zenon DEF FirstAt, Clear
      <4> QED
        BY <1>3, <4>1, <4>2, Zenon
    <3>2. k \in there
      BY <1>3, <1>6, Zenon DEF FirstAt
    <3>3. \A m \in there : m \in Int
      BY <1>1, <1>3
    <3> QED
      BY <3>1, <3>2, <3>3
  <2>2. \A i, j \in there : i \in 1..Len(sprite_buffer) /\ j \in 1..Len(sprite_buffer)
    BY <1>2, <1>3, Zenon
  <2>3. \A i, j \in there : i < j => Before(oam, line.merged[i].sprite, line.merged[j].sprite)
    BY <1>2, <1>3, <2>2, Zenon DEF IsList
  <2>4. \A i, j \in there : ~(/\ Before(oam, line.merged[i].sprite, line.merged[j].sprite)
                              /\ Before(oam, line.merged[j].sprite, line.merged[i].sprite))
    <3> SUFFICES ASSUME NEW i \in there, NEW j \in there
                 PROVE  ~(/\ Before(oam, sprite_buffer[i], sprite_buffer[j])
                          /\ Before(oam, sprite_buffer[j], sprite_buffer[i]))
      BY <1>2, <1>3, Zenon
    <3>1. /\ SpriteX(i) \in Nat /\ SpriteX(j) \in Nat
          /\ sprite_buffer[i] \in Nat /\ sprite_buffer[j] \in Nat
      BY <2>2, ListedSprites, Zenon
    <3> QED
      BY <3>1 DEF Before, SpriteX
  <2> HIDE DEF there, n
  <2>5. Least(k)
    BY <2>1, <2>3, Zenon
  <2>6. \A i \in there : Least(i) => i = k
    BY <2>1, <2>3, <2>4, Zenon
  <2>7. (CHOOSE i \in there : Least(i)) = k
    BY <2>1, <2>5, <2>6, Zenon
  <2> QED
    BY <1>2, <1>4, <2>1, <2>7, Zenon
<1> QED
  BY <1>4, <1>5, <1>6, Zenon

-----------------------------------------------------------------------------
(* The sprite FIFO: another sprite is merged, or a pixel is drawn. *)

LEMMA ClearOfOneMore ==
  ASSUME NEW n \in Nat, NEW x
  PROVE  /\ Clear(x, n + 1) <=> Clear(x, n) /\ ~Opaque(sprite_buffer[n + 1], x)
         /\ Clear(x, 0)
<1>1. 1..(n + 1) = (1..n) \union {n + 1}
  OBVIOUS
<1>2. 1..0 = {}
  OBVIOUS
<1> QED
  BY <1>1, <1>2, Zenon DEF Clear

LEMMA ShowsOneMore ==
  ASSUME NEW n \in Nat, NEW x, NEW p
  PROVE  /\ Shows(p, x, n) /\ ~p.opaque => Clear(x, n)
         /\ /\ Shows(p, x, n)
            /\ p.opaque \/ ~Opaque(sprite_buffer[n + 1], x)
            => Shows(p, x, n + 1)
         /\ /\ Clear(x, n)
            /\ p.own /\ p.sprite = sprite_buffer[n + 1]
            /\ p.opaque <=> Opaque(sprite_buffer[n + 1], x)
            => Shows(p, x, n + 1)
<1>1. /\ \A k \in 1..n : k \in 1..(n + 1)
      /\ n + 1 \in 1..(n + 1) /\ (n + 1) - 1 = n
  OBVIOUS
<1>2. Shows(p, x, n) /\ ~p.opaque => Clear(x, n)
  BY Zenon DEF Shows
<1>3. Shows(p, x, n) /\ p.opaque => Shows(p, x, n + 1)
  BY <1>1, Zenon DEF Shows
<1>4. Shows(p, x, n) /\ ~p.opaque /\ ~Opaque(sprite_buffer[n + 1], x) => Shows(p, x, n + 1)
  <2>1. ~p.opaque /\ Clear(x, n + 1) /\ Shows(p, x, n) => Shows(p, x, n + 1)
    BY Zenon DEF Shows
  <2> QED
    BY <1>2, <2>1, ClearOfOneMore, Zenon
<1>5. ASSUME Clear(x, n), p.own, p.sprite = sprite_buffer[n + 1],
             p.opaque <=> Opaque(sprite_buffer[n + 1], x)
      PROVE  Shows(p, x, n + 1)
  <2>1. CASE p.opaque
    <3>1. FirstAt(n + 1, x)
      BY <1>1, <1>5, <2>1, Zenon DEF FirstAt
    <3> QED
      BY <1>1, <1>5, <2>1, <3>1, Zenon DEF Shows
  <2>2. CASE ~p.opaque
    <3>1. Clear(x, n + 1)
      BY <1>5, <2>2, ClearOfOneMore, Zenon
    <3> QED
      BY <1>5, <2>2, <3>1, Zenon DEF Shows
  <2> QED
    BY <2>1, <2>2
<1> QED
  BY <1>2, <1>3, <1>4, <1>5, Zenon

\* What a merge makes of each of the eight places.
Covers(q, i) ==
  /\ i - 1 \in 0..(Fifo - 1)
  /\ (i - 1) - (oam[q.current_sprite].x - 8 - q.framebuffer_x) \in 0..(Fifo - 1)

Keeps(q, i) ==
  i <= Len(q.sprite_fifo) /\ (q.sprite_fifo[i].opaque \/ ~Covers(q, i))

MergedPixel(q, i, p) ==
  /\ p.own /\ p.sprite = q.current_sprite
  /\ p.opaque <=> ((i - 1) - (oam[q.current_sprite].x - 8 - q.framebuffer_x)) \in q.lo \union q.hi

LEMMA MergedPixels ==
  ASSUME Setup, NEW q, Drawable(q), q.current_sprite \in DOMAIN oam
  PROVE  LET f == Merged(q)
         IN /\ f \in Seq(ObjPixel) /\ Len(f) >= Len(q.sprite_fifo)
            /\ \A i \in 1..Fifo : Covers(q, i) => i <= Len(f)
            /\ \A i \in 1..Len(f) :
                 \/ Keeps(q, i) /\ f[i] = q.sprite_fifo[i]
                 \/ ~Keeps(q, i) /\ Covers(q, i) /\ MergedPixel(q, i, f[i])
                 \/ ~Keeps(q, i) /\ ~Covers(q, i) /\ f[i] = Blank
<1> DEFINE s == oam[q.current_sprite]
           first == s.x - 8 - q.framebuffer_x
           covered == {i \in 0..(Fifo - 1) : i - first \in 0..(Fifo - 1)}
           Pixel(i) == [sprite |-> q.current_sprite, opaque |-> (i - first) \in q.lo \union q.hi,
                        behind |-> s.behind, own |-> TRUE]
           old == q.sprite_fifo
           ends == {Len(old)} \union {i + 1 : i \in covered}
           length == Max(ends)
           f == [i \in 1..length |->
                   IF i <= Len(old) /\ (old[i].opaque \/ i - 1 \notin covered) THEN old[i]
                   ELSE IF i - 1 \in covered THEN Pixel(i - 1) ELSE Blank]
<1>1. Merged(q) = f
  BY Zenon DEF Merged
<1>2. \A i : i - 1 \in covered <=> Covers(q, i)
  BY Zenon DEF Covers
<1>3. ends \in SUBSET (0..Fifo) /\ ends # {}
  <2>1. Len(old) \in 0..Fifo
    <3>1. old \in Seq(ObjPixel) /\ Len(old) <= Fifo
      BY Zenon DEF Drawable, Fifos
    <3> HIDE DEF old
    <3>2. Len(old) \in Nat
      BY <3>1, LenProperties, Zenon
    <3>3. \A l \in Nat : l <= Fifo => l \in 0..Fifo
      BY DEF Fifo
    <3> QED
      BY <3>1, <3>2, <3>3, Zenon
  <2>2. \A i \in covered : i + 1 \in 0..Fifo
    <3>1. \A i \in 0..(Fifo - 1) : i + 1 \in 0..Fifo
      BY DEF Fifo
    <3> QED
      BY <3>1, Zenon
  <2> QED
    BY <2>1, <2>2, Zenon
<1> HIDE DEF covered
<1>4. /\ length \in 0..Fifo
      /\ Len(old) <= length
      /\ \A i \in covered : i + 1 <= length
  <2>1. Len(old) \in ends /\ \A i \in covered : i + 1 \in ends
    BY Zenon
  <2> HIDE DEF ends
  <2> QED
    BY <1>3, <2>1, LargestExists, Zenon
<1>5. Merged(q) \in Seq(ObjPixel)
  BY MergedFifo, Zenon
<1>6. length \in Nat /\ Len(Merged(q)) = length
  <2>1. length \in Nat
    BY <1>4 DEF Fifo
  <2>2. DOMAIN Merged(q) = 1..length
    BY <1>1, Zenon
  <2>3. Len(Merged(q)) \in Nat /\ DOMAIN Merged(q) = 1..Len(Merged(q))
    BY <1>5, LenProperties
  <2> HIDE DEF length
  <2> QED
    BY <2>1, <2>2, <2>3
<1>7. \A i \in 1..Fifo : Covers(q, i) => i <= length
  <2>1. \A i \in 1..Fifo : (i - 1) + 1 = i
    BY DEF Fifo
  <2> HIDE DEF length
  <2> QED
    BY <1>2, <1>4, <2>1, Zenon
<1>8. ASSUME NEW i \in 1..length
      PROVE  \/ Keeps(q, i) /\ f[i] = old[i]
             \/ ~Keeps(q, i) /\ Covers(q, i) /\ MergedPixel(q, i, f[i])
             \/ ~Keeps(q, i) /\ ~Covers(q, i) /\ f[i] = Blank
  <2>1. MergedPixel(q, i, Pixel(i - 1))
    BY Zenon DEF MergedPixel
  <2>2. f[i] = IF Keeps(q, i) THEN old[i] ELSE IF Covers(q, i) THEN Pixel(i - 1) ELSE Blank
    <3> HIDE DEF length, Pixel
    <3> QED
      BY <1>2, Zenon DEF Keeps
  <2> HIDE DEF f, Pixel
  <2> QED
    BY <2>1, <2>2, Zenon
<1> HIDE DEF f, length
<1> QED
  BY <1>1, <1>4, <1>5, <1>6, <1>7, <1>8, Zenon

\* The whole of a sprite goes in: it lies between its first column, which is
\* not to the right of the LCD, and seven columns from there.
LEMMA SpriteMerged ==
  ASSUME Setup, NEW q, Drawable(q), NEW n \in Nat, n < Len(sprite_buffer),
         q.sprite_fetch_active, q.sprite_fetch_step = 6,
         SpriteFetched(q, n), SpritesShown(q, n)
  PROVE  LET f == Merged(q)
         IN /\ \A i \in 1..Len(f) : Shows(f[i], q.framebuffer_x + (i - 1), n + 1)
            /\ \A x \in Nat : x >= q.framebuffer_x + Len(f) => Clear(x, n + 1)
<1> DEFINE f == Merged(q)
           old == q.sprite_fifo
           fx == q.framebuffer_x
           sx == SpriteX(n + 1)
           s == sprite_buffer[n + 1]
<1>1. /\ fx \in Nat /\ old \in Seq(ObjPixel) /\ Len(old) \in Nat /\ Len(old) <= Fifo
      /\ n + 1 \in 1..Len(sprite_buffer)
  <2>1. fx \in Nat /\ old \in Seq(ObjPixel) /\ Len(old) <= Fifo
    BY Zenon DEF Drawable, Counters, Fifos
  <2>2. Len(sprite_buffer) \in Nat
    BY LenProperties DEF Setup
  <2>3. n + 1 \in 1..Len(sprite_buffer)
    BY <2>2
  <2> QED
    BY <2>1, <2>3, LenProperties, Zenon
<1>2. /\ q.current_sprite = s /\ oam[s].x = sx /\ sx \in Nat /\ sx <= fx + 8
      /\ s \in DOMAIN oam
      /\ q.lo = oam[s].lo /\ q.hi = oam[s].hi
  <2>1. 6 >= 3 /\ 6 >= 5
    OBVIOUS
  <2> QED
    BY <1>1, <2>1, ListedSprites, Zenon DEF SpriteFetched, SpriteX
<1>3. /\ f \in Seq(ObjPixel) /\ Len(f) \in Nat /\ Len(f) >= Len(old)
      /\ \A i \in 1..Fifo : Covers(q, i) => i <= Len(f)
      /\ \A i \in 1..Len(f) :
           \/ Keeps(q, i) /\ f[i] = old[i]
           \/ ~Keeps(q, i) /\ Covers(q, i) /\ MergedPixel(q, i, f[i])
           \/ ~Keeps(q, i) /\ ~Covers(q, i) /\ f[i] = Blank
  BY <1>2, MergedPixels, LenProperties, Zenon
<1> HIDE DEF f
<1>4. ASSUME NEW i \in Nat, i >= 1
      PROVE  /\ fx + (i - 1) \in Nat
             /\ Opaque(s, fx + (i - 1)) <=> ((i - 1) - (oam[s].x - 8 - fx)) \in q.lo \union q.hi
             /\ Opaque(s, fx + (i - 1)) => i \in 1..Fifo /\ Covers(q, i)
  <2> DEFINE x == fx + (i - 1)
             column == (x + 8) - sx
  <2>1. /\ x \in Nat
        /\ column = (i - 1) - (sx - 8 - fx)
        /\ column \in 0..(Fifo - 1) => i - 1 \in 0..(Fifo - 1) /\ i \in 1..Fifo
    <3>1. \A a, b \in Nat : b <= a + 8 =>
            LET c == ((a + (i - 1)) + 8) - b
            IN /\ a + (i - 1) \in Nat
               /\ c = (i - 1) - (b - 8 - a)
               /\ c \in 0..(Fifo - 1) => i - 1 \in 0..(Fifo - 1) /\ i \in 1..Fifo
      BY <1>4 DEF Fifo
    <3> HIDE DEF fx, sx
    <3> QED
      BY <1>1, <1>2, <3>1, Zenon
  <2>2. x \in Int
    BY <2>1
  <2> HIDE DEF x
  <2>3. /\ Opaque(s, x) <=> column \in oam[s].lo \union oam[s].hi
        /\ Opaque(s, x) => column \in 0..(Fifo - 1)
    BY <1>1, <2>2, OpaqueColumns, Zenon
  <2>4. Opaque(s, x) => i \in 1..Fifo /\ Covers(q, i)
    BY <1>2, <2>1, <2>3, Zenon DEF Covers
  <2> QED
    BY <1>2, <2>1, <2>3, <2>4, Zenon DEF x
<1>5. \A i \in Nat : i >= 1 /\ i > Len(old) => Clear(fx + (i - 1), n)
  <2> SUFFICES ASSUME NEW i \in Nat, i >= 1, i > Len(old) PROVE Clear(fx + (i - 1), n)
    OBVIOUS
  <2>1. fx + (i - 1) \in Nat /\ fx + (i - 1) >= fx + Len(old)
    BY <1>1
  <2> QED
    BY <2>1, Zenon DEF SpritesShown
<1>6. ASSUME NEW i \in 1..Len(f) PROVE Shows(f[i], fx + (i - 1), n + 1)
  <2> DEFINE x == fx + (i - 1)
  <2>1. i \in Nat /\ i >= 1 /\ (i <= Len(old) => i \in 1..Len(old)) /\ (~(i <= Len(old)) => i > Len(old))
    BY <1>1, <1>3
  <2>2. i <= Len(old) => Shows(old[i], x, n)
    BY <2>1, Zenon DEF SpritesShown
  <2>3. ~(i <= Len(old)) => Clear(x, n)
    BY <1>5, <2>1, Zenon
  <2>4. Covers(q, i) \/ ~Opaque(s, x)
    BY <1>4, <2>1, Zenon
  <2> HIDE DEF x
  <2>5. CASE Keeps(q, i) /\ f[i] = old[i]
    BY <2>2, <2>4, <2>5, ShowsOneMore, Zenon DEF Keeps, x
  <2>6. CASE ~Keeps(q, i) /\ Covers(q, i) /\ MergedPixel(q, i, f[i])
    <3>1. Clear(x, n)
      BY <2>2, <2>3, <2>6, ShowsOneMore, Zenon DEF Keeps
    <3>2. f[i].own /\ f[i].sprite = s /\ (f[i].opaque <=> Opaque(s, x))
      BY <1>2, <1>4, <2>1, <2>6, Zenon DEF MergedPixel, x
    <3> QED
      BY <3>1, <3>2, ShowsOneMore, Zenon DEF x
  <2>7. CASE ~Keeps(q, i) /\ ~Covers(q, i) /\ f[i] = Blank
    <3>1. Clear(x, n + 1)
      BY <2>3, <2>4, <2>7, ClearOfOneMore, Zenon DEF Keeps
    <3>2. Blank.own = TRUE /\ Blank.opaque = FALSE
      BY Zenon DEF Blank
    <3> QED
      BY <2>7, <3>1, <3>2, Zenon DEF Shows, x
  <2> QED
    BY <1>3, <2>5, <2>6, <2>7, Zenon
<1>7. ASSUME NEW x \in Nat, x >= fx + Len(f) PROVE Clear(x, n + 1)
  <2> DEFINE i == (x - fx) + 1
  <2>1. i \in Nat /\ i >= 1 /\ i > Len(f) /\ i > Len(old) /\ x = fx + (i - 1) /\ ~(i <= Len(f))
    <3>1. \A a, b, c \in Nat : x >= a + b /\ b >= c =>
            LET j == (x - a) + 1
            IN j \in Nat /\ j >= 1 /\ j > b /\ j > c /\ x = a + (j - 1) /\ ~(j <= b)
      OBVIOUS
    <3> HIDE DEF fx, old
    <3> QED
      BY <1>1, <1>3, <1>7, <3>1, Zenon
  <2> HIDE DEF i
  <2>2. Clear(x, n)
    BY <1>5, <2>1, Zenon
  <2>3. ~Opaque(s, x)
    BY <1>3, <1>4, <2>1, Zenon
  <2> QED
    BY <2>2, <2>3, ClearOfOneMore, Zenon
<1> QED
  BY <1>6, <1>7, Zenon DEF f

-----------------------------------------------------------------------------
(* The sprites through a tick. *)

SpritesInOrder(q, n) == SpriteFetched(q, n) /\ SpritesShown(q, n) /\ InTime(q, n)

\* There is time for another pixel.
InTimeNext(q, n) ==
  obj_enable /\ n < Len(sprite_buffer) /\ ~q.sprite_fetch_active =>
    q.framebuffer_x + 1 <= Due(n + 1)

LEMMA NextSprite ==
  ASSUME Setup, NEW n \in Nat, n < Len(sprite_buffer)
  PROVE  n + 1 \in 1..Len(sprite_buffer)
<1>1. Len(sprite_buffer) \in Nat
  BY LenProperties DEF Setup
<1> QED
  BY <1>1

LEMMA BeginSprites ==
  ASSUME Setup, IsList(oam, sprite_buffer), NEW q, Drawable(q),
         NEW n \in Nat, n <= Len(sprite_buffer), SpritesInOrder(q, n)
  PROVE  LET a == BeginSprite(q)
         IN /\ SpritesInOrder(a, n)
            /\ ~a.sprite_fetch_active => InTimeNext(a, n)
            /\ a.sprite_fetch_active => n < Len(sprite_buffer)
            /\ a = q \/ a.sprite_fetch_step = 0
<1> DEFINE a == BeginSprite(q)
<1>0. /\ DOMAIN q = Names /\ q.framebuffer_x \in Nat /\ Len(sprite_buffer) \in Nat
      /\ q.sprite_index \in 0..Len(sprite_buffer) /\ q.sprite_fetch_active \in BOOLEAN
  BY LenProperties, Zenon DEF Drawable, Counters, Flags, Setup
<1>1. CASE Begins(q) /\ Begun(q, a)
  <2>1. /\ a.sprite_fifo = q.sprite_fifo /\ a.framebuffer_x = q.framebuffer_x
        /\ a.current_sprite = sprite_buffer[q.sprite_index + 1]
        /\ a.sprite_fetch_active = TRUE
        /\ a.sprite_index = q.sprite_index + 1
        /\ a.sprite_fetch_step = 0
    BY <1>1, Zenon DEF Begun, But, Names
  <2>2. /\ q.sprite_index = n /\ n < Len(sprite_buffer)
        /\ oam[sprite_buffer[n + 1]].x <= q.framebuffer_x + 8
    BY <1>1, Zenon DEF Begins, SpritesInOrder, SpriteFetched
  <2> HIDE DEF a
  <2>3. SpriteFetched(a, n)
    <3>1. ~(0 >= 3) /\ ~(0 >= 5)
      OBVIOUS
    <3> QED
      BY <2>1, <2>2, <3>1, Zenon DEF SpriteFetched, SpriteX
  <2>4. SpritesShown(a, n) /\ InTime(a, n)
    BY <2>1, Zenon DEF SpritesInOrder, SpritesShown, InTime
  <2> QED
    BY <2>1, <2>2, <2>3, <2>4, Zenon DEF SpritesInOrder, a
<1>2. CASE ~Begins(q) /\ a = q
  <2>1. q.sprite_fetch_active => n < Len(sprite_buffer)
    <3>1. q.sprite_fetch_active => q.sprite_index = n + 1
      BY Zenon DEF SpritesInOrder, SpriteFetched
    <3> QED
      BY <1>0, <3>1
  <2>2. ~q.sprite_fetch_active => InTimeNext(q, n)
    <3> SUFFICES ASSUME ~q.sprite_fetch_active, obj_enable, n < Len(sprite_buffer)
                 PROVE  q.framebuffer_x + 1 <= Due(n + 1)
      BY Zenon DEF InTimeNext
    <3>1. q.sprite_index = n
      BY Zenon DEF SpritesInOrder, SpriteFetched
    <3>2. ~(SpriteX(n + 1) <= q.framebuffer_x + 8)
      BY <1>2, <3>1, Zenon DEF Begins, SpriteX
    <3>3. n + 1 \in 1..Len(sprite_buffer)
      BY NextSprite, Zenon
    <3>4. SpriteX(n + 1) \in Nat /\ Due(n + 1) \in Nat /\ SpriteX(n + 1) - 8 <= Due(n + 1)
      BY <3>3, ListedSprites, DueInOrder, Zenon
    <3> QED
      BY <1>0, <3>2, <3>4
  <2> QED
    BY <1>2, <2>1, <2>2, Zenon
<1> QED
  BY <1>0, <1>1, <1>2, BeginCases, Zenon

LEMMA TickSprites ==
  ASSUME Setup, IsList(oam, sprite_buffer), NEW q, Drawable(q),
         NEW n \in Nat, n <= Len(sprite_buffer), SpritesInOrder(q, n),
         q.sprite_fetch_active => n < Len(sprite_buffer),
         ~q.sprite_fetch_active => InTimeNext(q, n)
  PROVE  LET b == SpriteTick(q)
             m == IF q.sprite_fetch_active /\ ~b.sprite_fetch_active THEN n + 1 ELSE n
         IN /\ SpritesInOrder(b, m)
            /\ InTimeNext(b, m)
            /\ q.sprite_fetch_active /\ ~b.sprite_fetch_active =>
                 q.sprite_fetch_step = 6 /\ q.sprite_index = n + 1
<1> DEFINE b == SpriteTick(q)
<1>0. /\ DOMAIN q = Names /\ q.framebuffer_x \in Nat /\ Len(sprite_buffer) \in Nat
      /\ q.sprite_fetch_step \in 0..6
  BY LenProperties, Zenon DEF Drawable, Counters, Setup
<1>1. CASE ~q.sprite_fetch_active /\ b = q
  BY <1>1, Zenon
<1>2. CASE q.sprite_fetch_active /\ q.sprite_fetch_step # 6 /\ SpriteRead(q, b)
  <2>1. /\ b.sprite_fifo = q.sprite_fifo /\ b.framebuffer_x = q.framebuffer_x
        /\ b.current_sprite = q.current_sprite
        /\ b.sprite_fetch_active = q.sprite_fetch_active
        /\ b.sprite_index = q.sprite_index
        /\ b.sprite_fetch_step = q.sprite_fetch_step + 1
        /\ b.lo = IF q.sprite_fetch_step = 2 THEN oam[q.current_sprite].lo ELSE q.lo
        /\ b.hi = IF q.sprite_fetch_step = 4 THEN oam[q.current_sprite].hi ELSE q.hi
    BY <1>2, Zenon DEF SpriteRead, But, Names
  <2> HIDE DEF b
  <2>2. \A s \in 0..6 : /\ s + 1 >= 3 => s = 2 \/ s >= 3
                        /\ s + 1 >= 5 => s = 4 \/ s >= 5
    OBVIOUS
  <2>3. SpriteFetched(b, n)
    BY <1>0, <1>2, <2>1, <2>2, Zenon DEF SpritesInOrder, SpriteFetched
  <2>4. SpritesShown(b, n) /\ InTime(b, n)
    BY <2>1, Zenon DEF SpritesInOrder, SpritesShown, InTime
  <2>5. InTimeNext(b, n)
    BY <1>2, <2>1, Zenon DEF InTimeNext
  <2> QED
    BY <1>2, <2>1, <2>3, <2>4, <2>5, Zenon DEF SpritesInOrder, b
<1>3. CASE q.sprite_fetch_active /\ q.sprite_fetch_step = 6 /\ SpriteDone(q, b)
  <2>1. /\ b.sprite_fifo = Merged(q) /\ b.framebuffer_x = q.framebuffer_x
        /\ b.sprite_fetch_active = FALSE
        /\ b.sprite_index = q.sprite_index
    BY <1>3, Zenon DEF SpriteDone, But, Names
  <2>2. q.sprite_index = n + 1 /\ n < Len(sprite_buffer) /\ InTime(q, n)
    BY <1>3, Zenon DEF SpritesInOrder, SpriteFetched
  <2> HIDE DEF b
  <2>3. SpriteFetched(b, n + 1)
    BY <2>1, <2>2, Zenon DEF SpriteFetched
  <2>4. SpritesShown(b, n + 1)
    BY <1>3, <2>1, <2>2, SpriteMerged, Zenon DEF SpritesShown, SpritesInOrder
  <2>5. obj_enable /\ n + 1 < Len(sprite_buffer) => q.framebuffer_x + 1 <= Due((n + 1) + 1)
    <3> SUFFICES ASSUME obj_enable, n + 1 < Len(sprite_buffer)
                 PROVE  q.framebuffer_x + 1 <= Due((n + 1) + 1)
      OBVIOUS
    <3>1. n + 1 \in 1..Len(sprite_buffer) /\ (n + 1) + 1 \in 1..Len(sprite_buffer)
          /\ n + 1 < (n + 1) + 1
      BY <1>0
    <3>2. /\ Due(n + 1) + 1 <= Due((n + 1) + 1)
          /\ Due(n + 1) \in Nat /\ Due((n + 1) + 1) \in Nat
      BY <3>1, DueInOrder, Zenon
    <3>3. q.framebuffer_x <= Due(n + 1)
      BY <2>2, Zenon DEF InTime
    <3> DEFINE u == Due(n + 1)
               v == Due((n + 1) + 1)
    <3> HIDE DEF u, v
    <3>4. u + 1 <= v /\ u \in Nat /\ v \in Nat /\ q.framebuffer_x <= u => q.framebuffer_x + 1 <= v
      BY <1>0
    <3> QED
      BY <3>2, <3>3, <3>4, Zenon DEF u, v
  <2>6. InTime(b, n + 1)
    <3>1. \A m : /\ m \in Nat /\ q.framebuffer_x + 1 <= m => q.framebuffer_x <= m
      BY <1>0
    <3>2. n + 1 < Len(sprite_buffer) => Due((n + 1) + 1) \in Nat
      <4>1. n + 1 < Len(sprite_buffer) => (n + 1) + 1 \in 1..Len(sprite_buffer)
        BY <1>0
      <4> QED
        BY <4>1, DueInOrder, Zenon
    <3> QED
      BY <2>1, <2>5, <3>1, <3>2, Zenon DEF InTime
  <2>7. InTimeNext(b, n + 1)
    BY <2>1, <2>5, Zenon DEF InTimeNext
  <2> QED
    BY <1>3, <2>1, <2>2, <2>3, <2>4, <2>6, <2>7, Zenon DEF SpritesInOrder, b
<1> QED
  BY <1>0, <1>1, <1>2, <1>3, SpriteTickCases, Zenon

LEMMA BgSprites ==
  ASSUME NEW q, DOMAIN q = Names, NEW n, SpritesInOrder(q, n), InTimeNext(q, n)
  PROVE  /\ SpritesInOrder(BgTick(q), n) /\ InTimeNext(BgTick(q), n)
         /\ BgTick(q).sprite_fetch_active = q.sprite_fetch_active
         /\ BgTick(q).sprite_index = q.sprite_index
<1> DEFINE b == BgTick(q)
<1>1. CASE TileChosen(q, b) \/ FetchRepeated(q, b) \/ TilePushed(q, b) \/ FetchGoesOn(q, b)
  <2>1. /\ b.sprite_fifo = q.sprite_fifo /\ b.framebuffer_x = q.framebuffer_x
        /\ b.sprite_fetch_active = q.sprite_fetch_active
        /\ b.sprite_fetch_step = q.sprite_fetch_step
        /\ b.sprite_index = q.sprite_index /\ b.current_sprite = q.current_sprite
        /\ b.lo = q.lo /\ b.hi = q.hi
    <3>1. CASE TileChosen(q, b)
      BY <3>1, Zenon DEF TileChosen, But, Names
    <3>2. CASE FetchRepeated(q, b)
      BY <3>2, Zenon DEF FetchRepeated, But, Names
    <3>3. CASE TilePushed(q, b)
      BY <3>3, Zenon DEF TilePushed, But, Names
    <3>4. CASE FetchGoesOn(q, b)
      BY <3>4, Zenon DEF FetchGoesOn, But, Names
    <3> QED
      BY <1>1, <3>1, <3>2, <3>3, <3>4
  <2> HIDE DEF b
  <2> QED
    BY <2>1, Zenon DEF SpritesInOrder, SpriteFetched, SpritesShown, InTime, InTimeNext, b
<1>2. CASE b = q
  BY <1>2, Zenon
<1> QED
  BY <1>1, <1>2, BgTickCases, Zenon

\* The pixel that is drawn leaves the FIFO, or there was none in it.
LEMMA SpritesMoveOn ==
  ASSUME NEW q, Drawable(q), NEW n, SpritesShown(q, n)
  PROVE  LET f == Popped(q.sprite_fifo)
             p == IF q.sprite_fifo = <<>> THEN Blank ELSE Head(q.sprite_fifo)
         IN /\ Shows(p, q.framebuffer_x, n)
            /\ \A i \in 1..Len(f) : Shows(f[i], (q.framebuffer_x + 1) + (i - 1), n)
            /\ \A x \in Nat : x >= (q.framebuffer_x + 1) + Len(f) => Clear(x, n)
<1> DEFINE old == q.sprite_fifo
           fx == q.framebuffer_x
           f == Popped(old)
<1>1. fx \in Nat /\ old \in Seq(ObjPixel) /\ Len(old) \in Nat
  BY LenProperties, Zenon DEF Drawable, Counters, Fifos
<1>2. /\ f \in Seq(ObjPixel) /\ Len(f) \in Nat
      /\ old # <<>> => Len(f) = Len(old) - 1 /\ Len(old) > 0
      /\ \A i \in 1..Len(f) : f[i] = old[i + 1]
  BY <1>1, PoppedFifo, LenProperties, Zenon
<1>3. CASE old = <<>>
  <2>1. Len(old) = 0 /\ Len(f) = 0 /\ 1..0 = {}
    BY <1>3, EmptySeq DEF Popped
  <2>2. \A x \in Nat : x >= fx => x >= fx + 0
    BY <1>1
  <2>3. fx >= fx /\ \A x \in Nat : x >= (fx + 1) + 0 => x >= fx
    BY <1>1
  <2>4. \A x \in Nat : x >= fx => Clear(x, n)
    BY <2>1, <2>2, Zenon DEF SpritesShown
  <2>5. Shows(Blank, fx, n)
    <3>1. Blank.own = TRUE /\ Blank.opaque = FALSE
      BY Zenon DEF Blank
    <3> QED
      BY <1>1, <2>3, <2>4, <3>1, Zenon DEF Shows
  <2> QED
    BY <1>3, <2>1, <2>3, <2>4, <2>5, Zenon
<1>4. CASE old # <<>>
  <2>1. \A a, l, m \in Nat : l > 0 /\ m = l - 1 =>
          /\ 1 \in 1..l /\ a + (1 - 1) = a
          /\ \A i \in 1..m : i + 1 \in 1..l /\ a + ((i + 1) - 1) = (a + 1) + (i - 1)
          /\ \A x \in Nat : x >= (a + 1) + m => x >= a + l
    OBVIOUS
  <2>2. Head(old) = old[1]
    BY <1>1, <1>4, HeadTailProperties
  <2> HIDE DEF old, fx, f
  <2>3. /\ 1 \in 1..Len(old) /\ fx + (1 - 1) = fx
        /\ \A i \in 1..Len(f) : i + 1 \in 1..Len(old) /\ fx + ((i + 1) - 1) = (fx + 1) + (i - 1)
        /\ \A x \in Nat : x >= (fx + 1) + Len(f) => x >= fx + Len(old)
    BY <1>1, <1>2, <1>4, <2>1, Zenon
  <2>4. Shows(old[1], fx + (1 - 1), n)
    BY <2>3, Zenon DEF SpritesShown, old, fx
  <2>5. ASSUME NEW i \in 1..Len(f) PROVE Shows(f[i], (fx + 1) + (i - 1), n)
    <3>1. Shows(old[i + 1], fx + ((i + 1) - 1), n)
      BY <2>3, Zenon DEF SpritesShown, old, fx
    <3> QED
      BY <1>2, <2>3, <3>1, Zenon
  <2>6. \A x \in Nat : x >= (fx + 1) + Len(f) => Clear(x, n)
    BY <2>3, Zenon DEF SpritesShown, old, fx
  <2> QED
    BY <1>4, <2>2, <2>3, <2>4, <2>5, <2>6, Zenon DEF old, fx, f
<1> QED
  BY <1>3, <1>4

LEMMA PushSprites ==
  ASSUME NEW q, Drawable(q), NEW n, SpritesInOrder(q, n), InTimeNext(q, n)
  PROVE  /\ SpritesInOrder(Pushed(q), n)
         /\ Draws(q) => Shows(Drawn(q).obj, q.framebuffer_x, n)
<1> DEFINE b == Pushed(q)
<1>0. DOMAIN q = Names
  BY Zenon DEF Drawable
<1>1. SpritesInOrder(b, n)
  <2>1. CASE b = q
    BY <2>1, Zenon
  <2>2. CASE PixelDiscarded(q, b)
    <3>1. /\ b.sprite_fifo = q.sprite_fifo /\ b.framebuffer_x = q.framebuffer_x
          /\ b.sprite_fetch_active = q.sprite_fetch_active
          /\ b.sprite_fetch_step = q.sprite_fetch_step
          /\ b.sprite_index = q.sprite_index /\ b.current_sprite = q.current_sprite
          /\ b.lo = q.lo /\ b.hi = q.hi
      BY <2>2, Zenon DEF PixelDiscarded, But, Names
    <3> HIDE DEF b
    <3> QED
      BY <3>1, Zenon DEF SpritesInOrder, SpriteFetched, SpritesShown, InTime
  <2>3. CASE PixelDrawn(q, b)
    <3>1. /\ b.sprite_fifo = Popped(q.sprite_fifo) /\ b.framebuffer_x = q.framebuffer_x + 1
          /\ b.sprite_fetch_active = q.sprite_fetch_active
          /\ b.sprite_index = q.sprite_index
      BY <2>3, Zenon DEF PixelDrawn, Drawing, But, Names
    <3>2. ~q.sprite_fetch_active
      BY <2>3, Zenon DEF PixelDrawn, Draws, Pushes
    <3> HIDE DEF b
    <3>3. SpriteFetched(b, n)
      BY <3>1, <3>2, Zenon DEF SpritesInOrder, SpriteFetched
    <3>4. SpritesShown(b, n)
      BY <3>1, SpritesMoveOn, Zenon DEF SpritesShown, SpritesInOrder
    <3>5. InTime(b, n)
      BY <3>1, <3>2, Zenon DEF InTime, InTimeNext
    <3> QED
      BY <3>3, <3>4, <3>5, Zenon DEF SpritesInOrder
  <2> QED
    BY <1>0, <2>1, <2>2, <2>3, PushedCases, Zenon
<1>2. Shows(Drawn(q).obj, q.framebuffer_x, n)
  <2>1. Drawn(q).obj = IF q.sprite_fifo = <<>> THEN Blank ELSE Head(q.sprite_fifo)
    BY Zenon DEF Drawn
  <2> QED
    BY <2>1, SpritesMoveOn, Zenon DEF SpritesInOrder
<1> QED
  BY <1>1, <1>2

-----------------------------------------------------------------------------
(* The background and the window through a tick. *)

LEMMA NoMultipleBetween ==
  ASSUME NEW N \in Nat \ {0}, NEW e \in Int, -N < N * e, N * e < N
  PROVE  e = 0
<1>1. CASE e >= 1
  <2>1. N * e = N + N * (e - 1) /\ N * (e - 1) >= 0
    BY <1>1
  <2> QED
    BY <2>1
<1>2. CASE e <= -1
  <2>1. N * e = -N - N * ((-e) - 1) /\ N * ((-e) - 1) >= 0
    BY <1>2
  <2> QED
    BY <2>1
<1> QED
  BY <1>1, <1>2

LEMMA RemainderIs ==
  ASSUME NEW N \in Nat \ {0}, NEW k \in Nat, NEW t \in Nat, t < N
  PROVE  (N * k + t) % N = t
<1> DEFINE y == N * k + t
           e == (y \div N) - k
<1>1. y \in Nat
  OBVIOUS
<1>2. y = N * (y \div N) + (y % N) /\ y % N \in 0..(N - 1) /\ y \div N \in Int
  <2> HIDE DEF y
  <2> QED
    BY <1>1
<1>3. N * e = t - (y % N) /\ e \in Int
  <2>1. N * e = N * (y \div N) - N * k
    BY <1>2
  <2> QED
    BY <1>2, <2>1
<1>4. e = 0
  <2>1. -N < N * e /\ N * e < N
    BY <1>2, <1>3
  <2> HIDE DEF e
  <2> QED
    BY <1>3, <2>1, NoMultipleBetween
<1>5. N * 0 = 0
  OBVIOUS
<1> QED
  BY <1>2, <1>3, <1>4, <1>5

\* The columns of a tile of the map.
LEMMA ColumnOfTile ==
  ASSUME NEW M \in Nat \ {0}, NEW a \in Nat, NEW j \in 0..7
  PROVE  8 * (a % M) + j = (8 * a + j) % (8 * M)
<1> DEFINE k == a \div M
           r == a % M
<1>1. a = M * k + r /\ r \in 0..(M - 1) /\ k \in Nat
  OBVIOUS
<1> HIDE DEF k, r
<1>2. 8 * a + j = (8 * M) * k + (8 * r + j)
  BY <1>1
<1>3. 8 * M \in Nat \ {0} /\ 8 * r + j \in Nat /\ 8 * r + j < 8 * M
  BY <1>1
<1>4. ((8 * M) * k + (8 * r + j)) % (8 * M) = 8 * r + j
  <2> DEFINE N == 8 * M
             t == 8 * r + j
  <2> HIDE DEF N, t
  <2>1. N \in Nat \ {0} /\ t \in Nat /\ t < N
    BY <1>3 DEF N, t
  <2>2. (N * k + t) % N = t
    BY <1>1, <2>1, RemainderIs
  <2> QED
    BY <2>2 DEF N, t
<1> QED
  BY <1>2, <1>4 DEF r

LEMMA BeginBackground ==
  ASSUME NEW q, DOMAIN q = Names, BackgroundShown(q)
  PROVE  BackgroundShown(BeginSprite(q))
<1> DEFINE n == BeginSprite(q)
<1>1. CASE n = q
  BY <1>1, Zenon
<1>2. CASE Begun(q, n)
  <2>1. /\ n.bg_wnd_fifo = q.bg_wnd_fifo /\ n.fetch_x = q.fetch_x
        /\ n.framebuffer_x = q.framebuffer_x /\ n.processed_pixels = q.processed_pixels
        /\ n.reached_window_x = q.reached_window_x
    BY <1>2, Zenon DEF Begun, But, Names
  <2>2. n.bg_wnd_fetch_step \notin 1..6
    <3>1. n.bg_wnd_fetch_step = 0
      BY <1>2, Zenon DEF Begun
    <3> QED
      BY <3>1
  <2> HIDE DEF n
  <2> QED
    BY <2>1, <2>2, Zenon DEF BackgroundShown, InWindow, Scrolled, n
<1> QED
  BY <1>1, <1>2, BeginCases, Zenon

LEMMA TickBackground ==
  ASSUME NEW q, DOMAIN q = Names, BackgroundShown(q)
  PROVE  BackgroundShown(SpriteTick(q))
<1> DEFINE n == SpriteTick(q)
<1>1. CASE n = q
  BY <1>1, Zenon
<1>2. CASE SpriteRead(q, n) \/ SpriteDone(q, n)
  <2>1. /\ n.bg_wnd_fifo = q.bg_wnd_fifo /\ n.fetch_x = q.fetch_x
        /\ n.framebuffer_x = q.framebuffer_x /\ n.processed_pixels = q.processed_pixels
        /\ n.reached_window_x = q.reached_window_x
        /\ n.bg_wnd_fetch_step = q.bg_wnd_fetch_step /\ n.tile = q.tile
    <3>1. CASE SpriteRead(q, n)
      BY <3>1, Zenon DEF SpriteRead, But, Names
    <3>2. CASE SpriteDone(q, n)
      BY <3>2, Zenon DEF SpriteDone, But, Names
    <3> QED
      BY <1>2, <3>1, <3>2, Zenon
  <2> HIDE DEF n
  <2> QED
    BY <2>1, Zenon DEF BackgroundShown, InWindow, Scrolled, TileAt, n
<1> QED
  BY <1>1, <1>2, SpriteTickCases, Zenon

LEMMA WindowBegins ==
  ASSUME Setup
  PROVE  /\ WindowStart \in Int /\ WindowStart >= 1
         /\ \A x \in Nat :
              IF wnd_enable /\ reached_window_y
              THEN /\ x < WindowStart /\ x + 1 >= wx - 7 => x + 1 = WindowStart
                   /\ ~(x + 1 >= wx - 7) => x + 1 < WindowStart
              ELSE WindowStart = Width
<1>1. wx \in 0..255
  BY Zenon DEF Setup
<1>2. wx - 7 \in Int /\ Width \in Int /\ Width >= 1
  BY <1>1, FetcherAssumption DEF FetcherAssumption
<1> DEFINE w == wx - 7
           m == Max({1, w})
<1>3. m = IF w >= 1 THEN w ELSE 1
  BY <1>2 DEF Max
<1>4. WindowStart = IF wnd_enable /\ reached_window_y THEN m ELSE Width
  BY Zenon DEF WindowStart
<1> HIDE DEF m, w
<1>5. /\ m \in Int /\ m >= 1
      /\ \A x \in Nat : /\ x < m /\ x + 1 >= w => x + 1 = m
                        /\ ~(x + 1 >= w) => x + 1 < m
  BY <1>2, <1>3 DEF w
<1> QED
  BY <1>2, <1>4, <1>5, Zenon DEF w

\* A tile that is pushed is the next one of the background or of the window.
LEMMA TileContinues ==
  ASSUME Setup, NEW q, Drawable(q), BackgroundShown(q),
         q.bg_wnd_fetch_step = 6, q.bg_wnd_fifo = <<>>, NEW i \in 1..Fifo
  PROVE  TilePixels(q.tile)[i] =
           IF q.reached_window_x
           THEN [window |-> TRUE, column |-> (q.framebuffer_x - WindowStart) + (i - 1)]
           ELSE [window |-> FALSE, column |-> BackgroundColumn(q.processed_pixels + (i - 1))]
<1>1. /\ q.fetch_x \in Nat /\ q.framebuffer_x \in Nat /\ q.processed_pixels \in Nat
      /\ q.reached_window_x \in BOOLEAN /\ q.tile \in Tile
  BY Zenon DEF Drawable, Counters, Flags, Fetching
<1>2. q.tile = TileAt(q)
  <2>1. q.bg_wnd_fetch_step \in 1..6
    OBVIOUS
  <2> QED
    BY <2>1, Zenon DEF BackgroundShown
<1>3. TilePixels(q.tile)[i] = [window |-> q.tile.window, column |-> Fifo * q.tile.column + i - 1]
  BY <1>1, TilePixelsFifo
<1>4. Len(q.bg_wnd_fifo) = 0
  BY EmptySeq
<1>5. CASE q.reached_window_x
  <2>1. (q.framebuffer_x - WindowStart) + 0 = Fifo * q.fetch_x
    BY <1>4, <1>5, Zenon DEF BackgroundShown, InWindow
  <2>2. WindowStart \in Int
    BY WindowBegins, Zenon
  <2>3. q.tile.window = TRUE /\ q.tile.column = q.fetch_x
    <3>1. /\ TileAt(q).window = q.reached_window_x
          /\ TileAt(q).column = IF q.reached_window_x THEN q.fetch_x
                                ELSE (q.fetch_x + scx \div 8) % MapWidth
      BY Zenon DEF TileAt
    <3> QED
      BY <1>1, <1>2, <1>5, <3>1, Zenon
  <2>4. \A f, x \in Nat, w, j \in Int : (x - w) + 0 = 8 * f => 8 * f + j - 1 = (x - w) + (j - 1)
    OBVIOUS
  <2>5. i \in Int
    OBVIOUS
  <2>6. 8 * q.fetch_x + i - 1 = (q.framebuffer_x - WindowStart) + (i - 1)
    BY <1>1, <2>1, <2>2, <2>4, <2>5, Zenon DEF Fifo
  <2> QED
    BY <1>3, <1>5, <2>3, <2>6, Zenon DEF Fifo
<1>6. CASE ~q.reached_window_x
  <2>1. q.processed_pixels + 0 = Fifo * q.fetch_x
    BY <1>4, <1>6, Zenon DEF BackgroundShown, Scrolled
  <2> DEFINE a == q.fetch_x + scx \div 8
  <2>2. q.tile.window = FALSE /\ q.tile.column = a % MapWidth
    <3>1. /\ TileAt(q).window = q.reached_window_x
          /\ TileAt(q).column = IF q.reached_window_x THEN q.fetch_x
                                ELSE (q.fetch_x + scx \div 8) % MapWidth
      BY Zenon DEF TileAt
    <3> QED
      BY <1>1, <1>2, <1>6, <3>1, Zenon
  <2> DEFINE s == scx \div 8
  <2>3. a \in Nat /\ i - 1 \in 0..7 /\ s \in Nat
    <3>1. scx \in 0..255
      BY Zenon DEF Setup
    <3> QED
      BY <1>1, <3>1 DEF Fifo
  <2>4. 8 * (a % MapWidth) + (i - 1) = (8 * a + (i - 1)) % (8 * MapWidth)
    <3> HIDE DEF a
    <3> QED
      BY <2>3, ColumnOfTile, FetcherAssumption, Zenon DEF FetcherAssumption
  <2>5. 8 * a + (i - 1) = 8 * s + (q.processed_pixels + (i - 1))
    <3>1. \A f, u, p, j \in Int : p + 0 = 8 * f => 8 * (f + u) + j = 8 * u + (p + j)
      OBVIOUS
    <3>2. q.fetch_x \in Int /\ s \in Int /\ q.processed_pixels \in Int /\ i - 1 \in Int
      BY <1>1, <2>3
    <3> HIDE DEF s
    <3>3. 8 * (q.fetch_x + s) + (i - 1) = 8 * s + (q.processed_pixels + (i - 1))
      BY <2>1, <3>1, <3>2, Zenon DEF Fifo
    <3> QED
      BY <3>3, Zenon DEF s
  <2>6. Fifo * q.tile.column + i - 1 = BackgroundColumn(q.processed_pixels + (i - 1))
    <3>1. a % MapWidth \in Int
      BY <2>3, FetcherAssumption DEF FetcherAssumption
    <3> HIDE DEF a
    <3>2. 8 * (a % MapWidth) + i - 1 = 8 * (a % MapWidth) + (i - 1)
      BY <3>1
    <3> QED
      BY <2>2, <2>4, <2>5, <3>2, Zenon DEF BackgroundColumn, Fifo
  <2> QED
    BY <1>3, <1>6, <2>2, <2>6, Zenon
<1> QED
  BY <1>5, <1>6

LEMMA BgBackground ==
  ASSUME Setup, NEW q, Drawable(q), BackgroundShown(q)
  PROVE  BackgroundShown(BgTick(q))
<1> DEFINE n == BgTick(q)
<1>0. /\ DOMAIN q = Names /\ q.bg_wnd_fetch_step \in 0..7 /\ q.fetch_x \in Nat
      /\ q.framebuffer_x \in Nat /\ q.processed_pixels \in Nat
  BY Zenon DEF Drawable, Counters
<1>1. CASE n = q
  BY <1>1, Zenon
<1>2. CASE TileChosen(q, n) \/ FetchRepeated(q, n) \/ FetchGoesOn(q, n)
  <2>1. /\ n.bg_wnd_fifo = q.bg_wnd_fifo /\ n.fetch_x = q.fetch_x
        /\ n.framebuffer_x = q.framebuffer_x /\ n.processed_pixels = q.processed_pixels
        /\ n.reached_window_x = q.reached_window_x
    <3>1. CASE TileChosen(q, n)
      BY <3>1, Zenon DEF TileChosen, But, Names
    <3>2. CASE FetchRepeated(q, n)
      BY <3>2, Zenon DEF FetchRepeated, But, Names
    <3>3. CASE FetchGoesOn(q, n)
      BY <3>3, Zenon DEF FetchGoesOn, But, Names
    <3> QED
      BY <1>2, <3>1, <3>2, <3>3, Zenon
  <2>2. n.bg_wnd_fetch_step \in 1..6 => n.tile = TileAt(q)
    <3>1. CASE TileChosen(q, n)
      BY <3>1, Zenon DEF TileChosen
    <3>2. CASE FetchRepeated(q, n)
      <4>1. n.bg_wnd_fetch_step = 0
        BY <3>2, Zenon DEF FetchRepeated
      <4> QED
        BY <4>1
    <3>3. CASE FetchGoesOn(q, n)
      <4>1. /\ q.bg_wnd_fetch_step # 0 /\ n.tile = q.tile
            /\ n.bg_wnd_fetch_step = (q.bg_wnd_fetch_step + 1) % 8
        BY <3>3, Zenon DEF FetchGoesOn, But, Names
      <4>2. \A s \in 0..7 : s # 0 /\ (s + 1) % 8 \in 1..6 => s \in 1..6
        OBVIOUS
      <4> QED
        BY <1>0, <4>1, <4>2, Zenon DEF BackgroundShown
    <3> QED
      BY <1>2, <3>1, <3>2, <3>3, Zenon
  <2> HIDE DEF n
  <2> QED
    BY <2>1, <2>2, Zenon DEF BackgroundShown, InWindow, Scrolled, TileAt, n
<1>3. CASE TilePushed(q, n)
  <2>1. /\ n.bg_wnd_fifo = TilePixels(q.tile) /\ n.fetch_x = q.fetch_x + 1
        /\ n.framebuffer_x = q.framebuffer_x /\ n.processed_pixels = q.processed_pixels
        /\ n.reached_window_x = q.reached_window_x
        /\ n.bg_wnd_fetch_step = 7
        /\ q.bg_wnd_fetch_step = 6 /\ q.bg_wnd_fifo = <<>>
    BY <1>3, Zenon DEF TilePushed, But, Names
  <2>2. Len(n.bg_wnd_fifo) = Fifo
    <3>1. q.tile \in Tile
      BY Zenon DEF Drawable, Fetching
    <3> QED
      BY <2>1, <3>1, TilePixelsFifo, Zenon
  <2>3. \A i \in 1..Len(n.bg_wnd_fifo) :
          n.bg_wnd_fifo[i] =
            IF q.reached_window_x
            THEN [window |-> TRUE, column |-> (q.framebuffer_x - WindowStart) + (i - 1)]
            ELSE [window |-> FALSE, column |-> BackgroundColumn(q.processed_pixels + (i - 1))]
    BY <2>1, <2>2, TileContinues, Zenon
  <2>4. n.bg_wnd_fetch_step \notin 1..6
    BY <2>1
  <2>5. Len(q.bg_wnd_fifo) = 0
    BY <2>1, EmptySeq
  <2>6. \A a \in Int : a + 0 = Fifo * q.fetch_x => a + Fifo = Fifo * (q.fetch_x + 1)
    <3>1. \A a, f \in Int : a + 0 = Fifo * f => a + Fifo = Fifo * (f + 1)
      BY DEF Fifo
    <3>2. q.fetch_x \in Int
      BY <1>0
    <3> QED
      BY <3>1, <3>2, Zenon
  <2>7. q.framebuffer_x - WindowStart \in Int /\ q.processed_pixels \in Int
    <3>1. WindowStart \in Int
      BY WindowBegins, Zenon
    <3> QED
      BY <1>0, <3>1
  <2> HIDE DEF n
  <2>8. CASE q.reached_window_x
    <3>1. InWindow(q)
      BY <2>8, Zenon DEF BackgroundShown
    <3>2. InWindow(n)
      BY <2>1, <2>2, <2>3, <2>5, <2>6, <2>7, <2>8, <3>1, Zenon DEF InWindow
    <3> QED
      BY <2>1, <2>4, <2>8, <3>2, Zenon DEF BackgroundShown, n
  <2>9. CASE ~q.reached_window_x
    <3>1. Scrolled(q)
      BY <2>9, Zenon DEF BackgroundShown
    <3>2. Scrolled(n)
      BY <2>1, <2>2, <2>3, <2>5, <2>6, <2>7, <2>9, <3>1, Zenon DEF Scrolled
    <3> QED
      BY <2>1, <2>4, <2>9, <3>2, Zenon DEF BackgroundShown, n
  <2> QED
    BY <2>8, <2>9 DEF n
<1> QED
  BY <1>0, <1>1, <1>2, <1>3, BgTickCases, Zenon

\* What the LCD takes from the FIFO.
LEMMA TakenPixel ==
  ASSUME NEW q, Drawable(q), q.bg_wnd_fifo # <<>>
  PROVE  LET f == q.bg_wnd_fifo
         IN /\ Len(f) \in Nat /\ Len(Tail(f)) \in Nat /\ Len(f) = Len(Tail(f)) + 1
            /\ Drawn(q).bg = f[1] /\ 1 \in 1..Len(f)
            /\ \A i \in 1..Len(Tail(f)) : /\ Tail(f)[i] = f[i + 1] /\ i + 1 \in 1..Len(f)
                                          /\ i \in Int
<1> DEFINE f == q.bg_wnd_fifo
<1>1. f \in Seq(BgPixel) /\ f # <<>>
  BY Zenon DEF Drawable, Fifos
<1>2. Drawn(q).bg = Head(f)
  BY Zenon DEF Drawn
<1> HIDE DEF f
<1>3. /\ Head(f) = f[1] /\ Tail(f) \in Seq(BgPixel) /\ Len(Tail(f)) = Len(f) - 1
      /\ \A i \in 1..Len(Tail(f)) : Tail(f)[i] = f[i + 1]
  BY <1>1, HeadTailProperties
<1>4. Len(f) \in Nat /\ Len(Tail(f)) \in Nat
  BY <1>1, <1>3, LenProperties
<1>5. /\ Len(f) = Len(Tail(f)) + 1 /\ 1 \in 1..Len(f)
      /\ \A i \in 1..Len(Tail(f)) : i + 1 \in 1..Len(f) /\ i \in Int
  BY <1>3, <1>4
<1> QED
  BY <1>2, <1>3, <1>4, <1>5, Zenon DEF f

\* The three low bits of SCX are what is discarded.
LEMMA ScrollParts ==
  ASSUME Setup
  PROVE  /\ scx % 8 \in Nat /\ scx \in Nat
         /\ \A x \in Nat : Fifo * (scx \div Fifo) + (x + (scx % 8)) = scx + x
<1>1. scx \in 0..255
  BY Zenon DEF Setup
<1>2. scx = 8 * (scx \div 8) + (scx % 8) /\ scx % 8 \in Nat /\ scx \div 8 \in Nat /\ scx \in Nat
  BY <1>1
<1> QED
  BY <1>2 DEF Fifo

LEMMA DrawnBackground ==
  ASSUME Setup, NEW q, Drawable(q), BackgroundShown(q), Draws(q)
  PROVE  Drawn(q).bg = RightPixel(q.framebuffer_x)
<1> DEFINE f == q.bg_wnd_fifo
           fx == q.framebuffer_x
           pp == q.processed_pixels
<1>1. /\ fx \in Nat /\ pp \in Nat /\ q.reached_window_x \in BOOLEAN
      /\ q.bg_wnd_fifo # <<>> /\ ~(pp < scx % 8)
  BY Zenon DEF Drawable, Counters, Flags, Draws, Discards, Pushes
<1>2. Drawn(q).bg = f[1] /\ 1 \in 1..Len(f)
  BY <1>1, TakenPixel, Zenon
<1>3. WindowStart \in Int /\ scx % 8 \in Nat /\ scx \in Nat
  BY WindowBegins, ScrollParts, Zenon
<1>4. \A a, w \in Int : a + (1 - 1) = a /\ (a >= w => ~(a < w))
  OBVIOUS
<1>5. CASE q.reached_window_x
  <2>1. /\ fx >= WindowStart
        /\ f[1] = [window |-> TRUE, column |-> (fx - WindowStart) + (1 - 1)]
    BY <1>2, <1>5, Zenon DEF BackgroundShown, InWindow
  <2>2. fx - WindowStart \in Int /\ fx \in Int
    BY <1>1, <1>3
  <2> QED
    BY <1>2, <1>3, <1>4, <2>1, <2>2, Zenon DEF RightPixel
<1>6. CASE ~q.reached_window_x
  <2>1. /\ fx < WindowStart /\ pp = fx + (scx % 8)
        /\ f[1] = [window |-> FALSE, column |-> BackgroundColumn(pp + (1 - 1))]
    BY <1>1, <1>2, <1>6, Zenon DEF BackgroundShown, Scrolled
  <2>2. BackgroundColumn(pp + (1 - 1)) = (scx + fx) % (Fifo * MapWidth)
    <3>1. pp + (1 - 1) = fx + (scx % 8)
      BY <1>1, <2>1
    <3> QED
      BY <1>1, <3>1, ScrollParts, Zenon DEF BackgroundColumn
  <2> QED
    BY <1>2, <2>1, <2>2, Zenon DEF RightPixel
<1> QED
  BY <1>5, <1>6

LEMMA PushBackground ==
  ASSUME Setup, NEW q, Drawable(q), BackgroundShown(q), Pushed(q).framebuffer_x < Width
  PROVE  BackgroundShown(Pushed(q))
<1> DEFINE n == Pushed(q)
           f == q.bg_wnd_fifo
           fx == q.framebuffer_x
           pp == q.processed_pixels
<1>0. /\ DOMAIN q = Names /\ fx \in Nat /\ pp \in Nat /\ q.reached_window_x \in BOOLEAN
      /\ q.fetch_x \in Nat
  BY Zenon DEF Drawable, Counters, Flags
<1>1. /\ scx % 8 \in Nat /\ WindowStart \in Int /\ Fifo * q.fetch_x \in Int
  <2>1. Fifo * q.fetch_x \in Int
    BY <1>0 DEF Fifo
  <2> QED
    BY <2>1, ScrollParts, WindowBegins, Zenon
<1>2. ASSUME f # <<>>
      PROVE  /\ Len(f) \in Nat /\ Len(Tail(f)) \in Nat /\ Len(f) = Len(Tail(f)) + 1
             /\ \A i \in 1..Len(Tail(f)) : /\ Tail(f)[i] = f[i + 1] /\ i + 1 \in 1..Len(f)
                                           /\ i \in Int
  BY <1>2, TakenPixel, Zenon
<1>3. ASSUME f # <<>>, NEW a \in Int, NEW t \in Int
      PROVE  /\ a + Len(f) = t => (a + 1) + Len(Tail(f)) = t
             /\ (a - WindowStart) + Len(f) = t => ((a + 1) - WindowStart) + Len(Tail(f)) = t
  <2>1. /\ Len(f) \in Nat /\ Len(Tail(f)) \in Nat /\ Len(f) = Len(Tail(f)) + 1
    BY <1>2, <1>3, Zenon
  <2>2. \A l, m \in Nat, w \in Int :
          l = m + 1 => /\ a + l = t => (a + 1) + m = t
                       /\ (a - w) + l = t => ((a + 1) - w) + m = t
    OBVIOUS
  <2> HIDE DEF f
  <2>3. WindowStart \in Int
    BY <1>1
  <2> QED
    BY <2>1, <2>2, <2>3, Zenon
<1>4. \A a, w, i \in Int : /\ a + ((i + 1) - 1) = (a + 1) + (i - 1)
                           /\ (a - w) + ((i + 1) - 1) = ((a + 1) - w) + (i - 1)
                           /\ a >= w => a + 1 >= w
  OBVIOUS
<1>5. fx \in Int /\ pp \in Int /\ scx % 8 \in Int /\ fx + 1 \in Nat
  BY <1>0, <1>1
<1>6. CASE n = q
  BY <1>6, Zenon
<1>7. CASE PixelDiscarded(q, n)
  <2>1. /\ n.bg_wnd_fifo = Tail(f) /\ n.fetch_x = q.fetch_x
        /\ n.framebuffer_x = fx /\ n.processed_pixels = pp + 1
        /\ n.reached_window_x = q.reached_window_x
        /\ n.bg_wnd_fetch_step = q.bg_wnd_fetch_step /\ n.tile = q.tile
        /\ f # <<>> /\ pp < scx % 8
    BY <1>7, Zenon DEF PixelDiscarded, Discards, Pushes, But, Names
  <2>2. ~(pp >= scx % 8)
    BY <1>5, <2>1
  <2>3. ~q.reached_window_x /\ Scrolled(q) /\ fx = 0
    BY <2>1, <2>2, Zenon DEF BackgroundShown, InWindow, Scrolled
  <2>4. IF pp + 1 < scx % 8 THEN fx = 0 ELSE pp + 1 = fx + (scx % 8)
    BY <1>5, <2>1, <2>3
  <2>5. (pp + 1) + Len(Tail(f)) = Fifo * q.fetch_x
    BY <1>1, <1>3, <1>5, <2>1, <2>3, Zenon DEF Scrolled
  <2>6. \A i \in 1..Len(Tail(f)) :
          Tail(f)[i] = [window |-> FALSE, column |-> BackgroundColumn((pp + 1) + (i - 1))]
    <3> SUFFICES ASSUME NEW i \in 1..Len(Tail(f))
                 PROVE  Tail(f)[i] = [window |-> FALSE, column |-> BackgroundColumn((pp + 1) + (i - 1))]
      OBVIOUS
    <3>1. Tail(f)[i] = f[i + 1] /\ i + 1 \in 1..Len(f) /\ i \in Int
      BY <1>2, <2>1, Zenon
    <3>2. pp + ((i + 1) - 1) = (pp + 1) + (i - 1)
      BY <1>4, <1>5, <3>1, Zenon
    <3>3. f[i + 1] = [window |-> FALSE, column |-> BackgroundColumn(pp + ((i + 1) - 1))]
      BY <2>3, <3>1, Zenon DEF Scrolled
    <3> QED
      BY <3>1, <3>2, <3>3, Zenon
  <2> HIDE DEF n
  <2>7. Scrolled(n)
    BY <2>1, <2>3, <2>4, <2>5, <2>6, Zenon DEF Scrolled
  <2> QED
    BY <2>1, <2>3, <2>7, Zenon DEF BackgroundShown, TileAt, n
<1>8. CASE PixelDrawn(q, n)
  <2>1. /\ n.framebuffer_x = fx + 1 /\ n.processed_pixels = pp + 1
        /\ n.tile = q.tile /\ f # <<>> /\ ~(pp < scx % 8)
    BY <1>8, Zenon DEF PixelDrawn, Drawing, But, Names, Draws, Discards, Pushes
  <2>2. pp >= scx % 8 /\ pp + 1 >= scx % 8 /\ ~(pp + 1 < scx % 8)
    BY <1>5, <2>1
  <2> DEFINE window == /\ ~q.reached_window_x
                       /\ wnd_enable /\ reached_window_y
                       /\ fx + 1 >= wx - 7
  <2>3. CASE ~window /\ But(Drawing, q, n) /\ n.bg_wnd_fifo = Tail(f)
    <3>1. /\ n.fetch_x = q.fetch_x /\ n.reached_window_x = q.reached_window_x
          /\ n.bg_wnd_fetch_step = q.bg_wnd_fetch_step /\ n.bg_wnd_fifo = Tail(f)
      BY <2>3, Zenon DEF Drawing, But, Names
    <3>2. CASE q.reached_window_x
      <4>1. InWindow(q)
        BY <3>2, Zenon DEF BackgroundShown
      <4>2. ((fx + 1) - WindowStart) + Len(Tail(f)) = Fifo * q.fetch_x
        BY <1>1, <1>3, <1>5, <2>1, <4>1, Zenon DEF InWindow
      <4>3. \A i \in 1..Len(Tail(f)) :
              Tail(f)[i] = [window |-> TRUE, column |-> ((fx + 1) - WindowStart) + (i - 1)]
        <5> SUFFICES ASSUME NEW i \in 1..Len(Tail(f))
                     PROVE  Tail(f)[i] = [window |-> TRUE, column |-> ((fx + 1) - WindowStart) + (i - 1)]
          OBVIOUS
        <5>1. Tail(f)[i] = f[i + 1] /\ i + 1 \in 1..Len(f) /\ i \in Int
          BY <1>2, <2>1, Zenon
        <5>2. (fx - WindowStart) + ((i + 1) - 1) = ((fx + 1) - WindowStart) + (i - 1)
          BY <1>1, <1>4, <1>5, <5>1, Zenon
        <5>3. f[i + 1] = [window |-> TRUE, column |-> (fx - WindowStart) + ((i + 1) - 1)]
          BY <4>1, <5>1, Zenon DEF InWindow
        <5> QED
          BY <5>1, <5>2, <5>3, Zenon
      <4>4. fx + 1 >= WindowStart
        BY <1>1, <1>4, <1>5, <4>1, Zenon DEF InWindow
      <4> HIDE DEF n
      <4>5. InWindow(n)
        BY <2>1, <2>2, <3>1, <4>2, <4>3, <4>4, Zenon DEF InWindow
      <4> QED
        BY <2>1, <3>1, <3>2, <4>5, Zenon DEF BackgroundShown, TileAt, n
    <3>3. CASE ~q.reached_window_x
      <4>1. Scrolled(q) /\ pp = fx + (scx % 8)
        BY <2>1, <3>3, Zenon DEF BackgroundShown, Scrolled
      <4>2. (pp + 1) + Len(Tail(f)) = Fifo * q.fetch_x
        BY <1>1, <1>3, <1>5, <2>1, <4>1, Zenon DEF Scrolled
      <4>3. \A i \in 1..Len(Tail(f)) :
              Tail(f)[i] = [window |-> FALSE, column |-> BackgroundColumn((pp + 1) + (i - 1))]
        <5> SUFFICES ASSUME NEW i \in 1..Len(Tail(f))
                     PROVE  Tail(f)[i] = [window |-> FALSE, column |-> BackgroundColumn((pp + 1) + (i - 1))]
          OBVIOUS
        <5>1. Tail(f)[i] = f[i + 1] /\ i + 1 \in 1..Len(f) /\ i \in Int
          BY <1>2, <2>1, Zenon
        <5>2. pp + ((i + 1) - 1) = (pp + 1) + (i - 1)
          BY <1>4, <1>5, <5>1, Zenon
        <5>3. f[i + 1] = [window |-> FALSE, column |-> BackgroundColumn(pp + ((i + 1) - 1))]
          BY <4>1, <5>1, Zenon DEF Scrolled
        <5> QED
          BY <5>1, <5>2, <5>3, Zenon
      <4>4. pp + 1 = (fx + 1) + (scx % 8)
        BY <1>5, <4>1
      <4>5. fx + 1 < WindowStart
        <5>1. fx + 1 < Width
          BY <2>1, Zenon
        <5> QED
          BY <1>0, <2>3, <3>3, <5>1, WindowBegins, Zenon
      <4> HIDE DEF n
      <4>6. Scrolled(n)
        BY <2>1, <2>2, <3>1, <4>2, <4>3, <4>4, <4>5, Zenon DEF Scrolled
      <4> QED
        BY <2>1, <3>1, <3>3, <4>6, Zenon DEF BackgroundShown, TileAt, n
    <3> QED
      BY <1>0, <3>2, <3>3, Zenon
  <2>4. CASE /\ window
             /\ n.bg_wnd_fifo = <<>> /\ n.reached_window_x = TRUE
             /\ n.bg_wnd_fetch_step = 0 /\ n.fetch_x = 0
    <3>1. fx + 1 = WindowStart
      <4>1. fx < WindowStart
        BY <2>4, Zenon DEF BackgroundShown, Scrolled
      <4> QED
        BY <1>0, <2>4, <4>1, WindowBegins, Zenon
    <3>2. /\ fx + 1 >= WindowStart /\ ((fx + 1) - WindowStart) + 0 = Fifo * 0
          /\ 1..0 = {} /\ 0 \notin 1..6
      BY <1>1, <1>5, <3>1 DEF Fifo
    <3>3. Len(<<>>) = 0
      BY EmptySeq
    <3>4. n.framebuffer_x = fx + 1 /\ n.processed_pixels = pp + 1
      BY <2>1
    <3> HIDE DEF n
    <3>5. InWindow(n)
      BY <2>2, <2>4, <3>2, <3>3, <3>4, Zenon DEF InWindow
    <3> QED
      BY <2>4, <3>2, <3>5, Zenon DEF BackgroundShown, n
  <2> QED
    BY <1>8, <2>3, <2>4, Zenon DEF PixelDrawn
<1> QED
  BY <1>0, <1>6, <1>7, <1>8, PushedCases, Zenon

-----------------------------------------------------------------------------
(* The picture from tick to tick. *)

\* Whether the fetchers put a sprite into the FIFO in this tick.
Merges(q, c) == q.sprite_fetch_active /\ ~c.sprite_fetch_active

LEMMA FetchedPicture ==
  ASSUME Setup, IsList(oam, sprite_buffer), NEW q, Drawable(q),
         NEW n \in Nat, n <= Len(sprite_buffer), SpritesInOrder(q, n), BackgroundShown(q)
  PROVE  LET c == BgTick(SpriteTick(BeginSprite(q)))
             m == IF Merges(q, c) THEN n + 1 ELSE n
         IN /\ SpritesInOrder(c, m) /\ InTimeNext(c, m) /\ BackgroundShown(c)
            /\ Merges(q, c) => n < Len(sprite_buffer) /\ c.sprite_index = n + 1
<1> DEFINE a == BeginSprite(q)
           b == SpriteTick(a)
           c == BgTick(b)
           m == IF Merges(q, c) THEN n + 1 ELSE n
           k == IF a.sprite_fetch_active /\ ~b.sprite_fetch_active THEN n + 1 ELSE n
<1>1. /\ Drawable(a) /\ Drawable(b)
      /\ DOMAIN q = Names /\ DOMAIN a = Names /\ DOMAIN b = Names
  BY BeginDrawable, SpriteTickDrawable, Zenon DEF Drawable
<1>2. /\ SpritesInOrder(a, n)
      /\ ~a.sprite_fetch_active => InTimeNext(a, n)
      /\ a.sprite_fetch_active => n < Len(sprite_buffer)
      /\ a = q \/ a.sprite_fetch_step = 0
  BY BeginSprites, Zenon
<1>3. /\ SpritesInOrder(b, k)
      /\ InTimeNext(b, k)
      /\ a.sprite_fetch_active /\ ~b.sprite_fetch_active =>
           a.sprite_fetch_step = 6 /\ a.sprite_index = n + 1
  <2> HIDE DEF a
  <2> QED
    BY <1>1, <1>2, TickSprites, Zenon
<1>4. /\ SpritesInOrder(c, k) /\ InTimeNext(c, k)
      /\ c.sprite_fetch_active = b.sprite_fetch_active /\ c.sprite_index = b.sprite_index
  <2> HIDE DEF b, k
  <2> QED
    BY <1>1, <1>3, BgSprites, Zenon
<1>5. BackgroundShown(c)
  BY <1>1, BeginBackground, TickBackground, BgBackground, Zenon
<1>6. b.sprite_index = a.sprite_index
  <2> HIDE DEF a
  <2>1. CASE SpriteRead(a, b)
    BY <2>1, Zenon DEF SpriteRead, But, Names
  <2>2. CASE SpriteDone(a, b)
    BY <2>2, Zenon DEF SpriteDone, But, Names
  <2> QED
    BY <1>1, <2>1, <2>2, SpriteTickCases, Zenon
<1>7. 0 # 6
  OBVIOUS
<1>8. q.sprite_fetch_active => a.sprite_fetch_active
  <2>1. CASE Begun(q, a)
    BY <2>1, Zenon DEF Begun
  <2> QED
    BY <1>1, <2>1, BeginCases, Zenon
<1>9. Merges(q, c) <=> a.sprite_fetch_active /\ ~b.sprite_fetch_active
  <2> HIDE DEF a, b, c
  <2> QED
    BY <1>2, <1>3, <1>4, <1>7, <1>8, Zenon DEF Merges
<1> HIDE DEF a, b, c
<1>10. k = m
  BY <1>9, Zenon
<1>11. Merges(q, c) => n < Len(sprite_buffer) /\ c.sprite_index = n + 1
  BY <1>2, <1>3, <1>4, <1>6, <1>9, Zenon
<1> QED
  BY <1>4, <1>5, <1>10, <1>11, Zenon DEF a, b, c

\* While the settings stay, what is right stays right.
LEMMA SameLine ==
  ASSUME UNCHANGED <<oam, scx, wx, obj_enable, wnd_enable, sprite_buffer, reached_window_y>>
  PROVE  /\ \A p, x, n : Shows(p, x, n) => Shows(p, x, n)'
         /\ \A q, n : SpritesInOrder(q, n) => SpritesInOrder(q, n)'
         /\ \A q : BackgroundShown(q) => BackgroundShown(q)'
         /\ \A x : RightPixel(x)' = RightPixel(x)
         /\ \A k : Due(k)' = Due(k)
<1>1. \A i, x : Opaque(i, x)' <=> Opaque(i, x)
  BY Zenon DEF Opaque
<1>2. \A x, n : Clear(x, n)' <=> Clear(x, n)
  BY <1>1, Zenon DEF Clear
<1>3. \A k, x : FirstAt(k, x)' <=> FirstAt(k, x)
  BY <1>1, <1>2, Zenon DEF FirstAt
<1>4. \A p, x, n : Shows(p, x, n) => Shows(p, x, n)'
  BY <1>2, <1>3, Zenon DEF Shows
<1>5. \A k : Due(k)' = Due(k) /\ SpriteX(k)' = SpriteX(k)
  BY Zenon DEF Due, SpriteX
<1>6. \A q, n : SpritesInOrder(q, n) => SpritesInOrder(q, n)'
  <2> SUFFICES ASSUME NEW q, NEW n, SpritesInOrder(q, n) PROVE SpritesInOrder(q, n)'
    OBVIOUS
  <2>1. SpriteFetched(q, n)'
    BY <1>5, Zenon DEF SpritesInOrder, SpriteFetched
  <2>2. SpritesShown(q, n)'
    BY <1>2, <1>4, Zenon DEF SpritesInOrder, SpritesShown
  <2>3. InTime(q, n)'
    BY <1>5, Zenon DEF SpritesInOrder, InTime
  <2> QED
    BY <2>1, <2>2, <2>3, Zenon DEF SpritesInOrder
<1>7. WindowStart' = WindowStart
  BY Zenon DEF WindowStart
<1>8. \A q : BackgroundShown(q) => BackgroundShown(q)'
  BY <1>7, Zenon DEF BackgroundShown, InWindow, Scrolled, TileAt, BackgroundColumn
<1>9. \A x : RightPixel(x)' = RightPixel(x)
  BY <1>7, Zenon DEF RightPixel
<1> QED
  BY <1>4, <1>5, <1>6, <1>8, <1>9, Zenon

\* The line after a tick: the sprite that was put into the FIFO is added.
LEMMA ListAfterTick ==
  ASSUME DrawTick, TypeInv
  PROVE  /\ line'.steady = line.steady
         /\ line'.merged =
              IF Merges(d, Fetched) /\ line.steady
              THEN Append(line.merged, [sprite |-> sprite_buffer[Fetched.sprite_index],
                                        at |-> Fetched.framebuffer_x])
              ELSE line.merged
<1> DEFINE c == Fetched
           M == IF (d.sprite_fetch_active /\ ~c.sprite_fetch_active) /\ line.steady
                THEN Append(line.merged, [sprite |-> sprite_buffer[c.sprite_index],
                                          at |-> c.framebuffer_x])
                ELSE line.merged
<1>1. line' = [line EXCEPT !.ticks = Min({@ + 1, LineLimit + 1}), !.merged = M]
  BY Zenon DEF DrawTick
<1>2. DOMAIN line = LineFields
  BY Zenon DEF TypeInv
<1>3. line'.steady = line.steady /\ line'.merged = M
  <2> HIDE DEF M
  <2> QED
    BY <1>1, <1>2, Zenon DEF LineFields
<1> QED
  BY <1>3, Zenon DEF Merges

\* The sprites fetched so far are the first of the list, each on time.
LEMMA ListGrows ==
  ASSUME Setup, IsList(oam, sprite_buffer), Fetches(Len(line.merged)),
         NEW x \in Nat, FetchedBy(x), NEW n \in Nat, n = Len(line.merged), n < Len(sprite_buffer),
         obj_enable => x <= Due(n + 1)
  PROVE  LET M == Append(line.merged, [sprite |-> sprite_buffer[n + 1], at |-> x])
         IN /\ M \in Seq([sprite: Nat, at: Nat]) /\ Len(M) = n + 1
            /\ \A k \in 1..(n + 1) : /\ M[k].sprite = sprite_buffer[k]
                                     /\ obj_enable => M[k].at <= Due(k)
                                     /\ M[k].at <= x
<1> DEFINE e == [sprite |-> sprite_buffer[n + 1], at |-> x]
           M == Append(line.merged, e)
<1>1. /\ line.merged \in Seq([sprite: Nat, at: Nat])
      /\ \A k \in 1..n : /\ line.merged[k].sprite = sprite_buffer[k]
                         /\ obj_enable => line.merged[k].at <= Due(k)
                         /\ line.merged[k].at <= x
  BY Zenon DEF Fetches, FetchedBy
<1>2. e.sprite = sprite_buffer[n + 1] /\ e.at = x /\ e \in [sprite: Nat, at: Nat]
  <2>1. sprite_buffer[n + 1] \in Nat
    BY NextSprite, ListedSprites, Zenon
  <2> QED
    BY <2>1, Zenon
<1> HIDE DEF e
<1>3. /\ M \in Seq([sprite: Nat, at: Nat]) /\ Len(M) = n + 1
      /\ \A k \in 1..n : M[k] = line.merged[k]
      /\ M[n + 1] = e
  BY <1>1, <1>2, AppendProperties
<1>4. \A k \in 1..(n + 1) : k \in 1..n \/ k = n + 1
  OBVIOUS
<1>5. x <= x
  OBVIOUS
<1> HIDE DEF M
<1>6. ASSUME NEW k \in 1..(n + 1)
      PROVE  /\ M[k].sprite = sprite_buffer[k]
             /\ obj_enable => M[k].at <= Due(k)
             /\ M[k].at <= x
  BY <1>1, <1>2, <1>3, <1>4, <1>5, Zenon
<1> QED
  BY <1>3, <1>6, Zenon DEF M, e

LEMMA SteadyTick ==
  ASSUME TypeInv, PictureInv, DrawTick, line.steady, NEW c, c = Fetched
  PROVE  /\ IsList(oam, sprite_buffer)'
         /\ Fetches(Len(line.merged))' /\ FetchedBy(c.framebuffer_x)'
         /\ PixelShown'
         /\ \A m : m = Len(line'.merged) => SpritesInOrder(c, m) /\ InTimeNext(c, m)
         /\ BackgroundShown(c)
<1>1. /\ Setup /\ Drawable(d) /\ mode = "DRAW"
      /\ UNCHANGED <<oam, scx, wx, obj_enable, wnd_enable, sprite_buffer, reached_window_y>>
  BY Zenon DEF TypeInv, DrawTick, settings
<1>2. PICK n : n = Len(line.merged)
  BY Zenon
<1>3. /\ IsList(oam, sprite_buffer) /\ Fetches(n) /\ FetchedBy(d.framebuffer_x)
      /\ SpritesInOrder(d, n) /\ BackgroundShown(d)
  <2>1. mode \in {"DRAW", "HBLANK"}
    BY <1>1
  <2> QED
    BY <1>1, <1>2, <2>1, Zenon DEF PictureInv, LineShown, LineGoesOn, SpritesInOrder
<1>4. n \in Nat /\ n <= Len(sprite_buffer) /\ Len(sprite_buffer) \in Nat
  BY <1>1, <1>3, LenProperties, Zenon DEF Fetches, Setup
<1>5. PICK m : m = IF Merges(d, c) THEN n + 1 ELSE n
  BY Zenon
<1>6. /\ SpritesInOrder(c, m) /\ InTimeNext(c, m) /\ BackgroundShown(c)
      /\ Merges(d, c) => n < Len(sprite_buffer) /\ c.sprite_index = n + 1
  BY <1>1, <1>3, <1>4, <1>5, FetchedPicture, Zenon DEF Fetched
<1>7. Drawable(c) /\ c.framebuffer_x = d.framebuffer_x /\ c.framebuffer_x \in Nat
  BY <1>1, FetchedFields, Zenon DEF Fetched, Drawable, Counters
<1>8. /\ line'.merged \in Seq([sprite: Nat, at: Nat]) /\ Len(line'.merged) = m
      /\ m \in Nat /\ m <= Len(sprite_buffer)
      /\ \A k \in 1..m : /\ line'.merged[k].sprite = sprite_buffer[k]
                         /\ obj_enable => line'.merged[k].at <= Due(k)
                         /\ line'.merged[k].at <= c.framebuffer_x
  <2>1. CASE Merges(d, c)
    <3>1. m = n + 1 /\ n < Len(sprite_buffer) /\ c.sprite_index = n + 1
      BY <1>5, <1>6, <2>1, Zenon
    <3>2. line'.merged = Append(line.merged, [sprite |-> sprite_buffer[n + 1],
                                              at |-> c.framebuffer_x])
      BY <2>1, <3>1, ListAfterTick, Zenon
    <3>3. obj_enable => c.framebuffer_x <= Due(n + 1)
      BY <1>3, <1>7, <3>1, Zenon DEF SpritesInOrder, InTime
    <3>4. n + 1 \in Nat /\ n + 1 <= Len(sprite_buffer)
      BY <1>4, <3>1
    <3>5. FetchedBy(c.framebuffer_x) /\ Fetches(Len(line.merged))
      BY <1>2, <1>3, <1>7, Zenon
    <3>6. LET M == Append(line.merged, [sprite |-> sprite_buffer[n + 1],
                                        at |-> c.framebuffer_x])
          IN /\ M \in Seq([sprite: Nat, at: Nat]) /\ Len(M) = n + 1
             /\ \A k \in 1..(n + 1) : /\ M[k].sprite = sprite_buffer[k]
                                      /\ obj_enable => M[k].at <= Due(k)
                                      /\ M[k].at <= c.framebuffer_x
      <4> DEFINE x == c.framebuffer_x
      <4>1. x \in Nat /\ FetchedBy(x) /\ (obj_enable => x <= Due(n + 1))
        BY <1>7, <3>3, <3>5, Zenon
      <4> HIDE DEF x
      <4>2. LET M == Append(line.merged, [sprite |-> sprite_buffer[n + 1], at |-> x])
            IN /\ M \in Seq([sprite: Nat, at: Nat]) /\ Len(M) = n + 1
               /\ \A k \in 1..(n + 1) : /\ M[k].sprite = sprite_buffer[k]
                                        /\ obj_enable => M[k].at <= Due(k)
                                        /\ M[k].at <= x
        BY <1>1, <1>2, <1>3, <1>4, <3>1, <3>5, <4>1, ListGrows, Zenon
      <4> QED
        BY <4>2, Zenon DEF x
    <3> QED
      BY <3>1, <3>2, <3>4, <3>6, Zenon
  <2>2. CASE ~Merges(d, c)
    <3>1. m = n /\ line'.merged = line.merged
      BY <1>5, <2>2, ListAfterTick, Zenon
    <3> QED
      BY <1>2, <1>3, <1>4, <1>7, <3>1, Zenon DEF Fetches, FetchedBy
  <2> QED
    BY <2>1, <2>2
<1>9. IsList(oam, sprite_buffer)'
  <2>1. IsList(oam', sprite_buffer')
    BY <1>1, <1>3, Zenon
  <2> QED
    BY <2>1, Zenon DEF IsList
<1>10. Fetches(Len(line.merged))' /\ FetchedBy(c.framebuffer_x)'
  BY <1>1, <1>8, SameLine, Zenon DEF Fetches, FetchedBy
<1>11. PixelShown'
  <2> SUFFICES ASSUME shown' # Nothing
               PROVE  /\ shown'.x \in Nat /\ FetchedBy(shown.x)'
                      /\ Shows(shown.obj, shown.x, Len(line.merged))'
                      /\ shown'.bg = RightPixel(shown.x)'
    BY Zenon DEF PixelShown
  <2>1. Draws(c) /\ shown' = Drawn(c)
    BY Zenon DEF DrawTick
  <2>2. shown'.x = c.framebuffer_x
    BY <2>1, Zenon DEF Drawn
  <2>3. Shows(shown'.obj, c.framebuffer_x, m)
    BY <1>6, <1>7, <2>1, PushSprites, Zenon
  <2>4. shown'.bg = RightPixel(c.framebuffer_x)
    BY <1>1, <1>6, <1>7, <2>1, DrawnBackground, Zenon
  <2>5. FetchedBy(shown.x)'
    BY <1>10, <2>2, Zenon
  <2>6. Shows(shown.obj, shown.x, Len(line.merged))'
    BY <1>1, <1>8, <2>2, <2>3, SameLine, Zenon
  <2>7. RightPixel(shown.x)' = RightPixel(c.framebuffer_x)
    BY <1>1, <2>2, SameLine, Zenon
  <2> QED
    BY <1>7, <2>2, <2>4, <2>5, <2>6, <2>7, Zenon
<1> QED
  BY <1>6, <1>8, <1>9, <1>10, <1>11, Zenon


\* The LCD moves on by a pixel or stays.
LEMMA PushedX ==
  ASSUME NEW q, Drawable(q)
  PROVE  \/ Pushed(q).framebuffer_x = q.framebuffer_x
         \/ /\ Pushed(q).framebuffer_x = q.framebuffer_x + 1
            /\ Pushed(q).sprite_fifo = Popped(q.sprite_fifo)
<1> DEFINE n == Pushed(q)
<1>1. CASE PixelDiscarded(q, n)
  BY <1>1, Zenon DEF PixelDiscarded, But, Names
<1>2. CASE PixelDrawn(q, n)
  BY <1>2, Zenon DEF PixelDrawn
<1> QED
  BY <1>1, <1>2, PushedCases, Zenon DEF Drawable

\* A line that ends leaves at most seven pixels, and none of a sprite of the next.
LEMMA LeftByLine ==
  ASSUME NEW q, Drawable(q), NEW e, Drawable(e), e.sprite_fifo = Popped(q.sprite_fifo)
  PROVE  Finished(e).fetch_x = 0 /\ Leftovers(Finished(e))
<1> DEFINE n == Finished(e)
           f == e.sprite_fifo
<1>1. /\ n.fetch_x = 0
      /\ n.sprite_fifo = [i \in DOMAIN f |-> [f[i] EXCEPT !.own = FALSE, !.sprite = 0]]
  BY FinishedFields, Zenon DEF Drawable, LineDone
<1>2. /\ f \in Seq(ObjPixel) /\ q.sprite_fifo \in Seq(ObjPixel) /\ Len(q.sprite_fifo) <= Fifo
      /\ f = Popped(q.sprite_fifo)
  BY Zenon DEF Drawable, Fifos
<1> HIDE DEF n, f
<1>3. Len(f) \in Nat /\ Len(f) < Fifo /\ DOMAIN f = 1..Len(f)
  <2>1. Len(f) \in Nat /\ Len(q.sprite_fifo) \in Nat /\ DOMAIN f = 1..Len(f)
    BY <1>2, LenProperties, Zenon
  <2>2. CASE q.sprite_fifo = <<>>
    <3>1. Len(f) = 0
      BY <1>2, <2>2, EmptySeq, Zenon DEF Popped
    <3> QED
      BY <2>1, <3>1 DEF Fifo
  <2>3. CASE q.sprite_fifo # <<>>
    <3>1. Len(f) = Len(q.sprite_fifo) - 1
      BY <1>2, <2>3, PoppedFifo, Zenon
    <3>2. \A l, k \in Nat : l = k - 1 /\ k <= Fifo => l < Fifo
      BY DEF Fifo
    <3> QED
      BY <1>2, <2>1, <3>1, <3>2, Zenon
  <2> QED
    BY <2>2, <2>3
<1>4. ASSUME NEW i \in 1..Len(f)
      PROVE  /\ [f[i] EXCEPT !.own = FALSE, !.sprite = 0] \in ObjPixel
             /\ ~[f[i] EXCEPT !.own = FALSE, !.sprite = 0].own
  <2>1. f[i] \in ObjPixel
    BY <1>2, ElementOfSeq
  <2>2. ASSUME NEW p \in ObjPixel
        PROVE  /\ [p EXCEPT !.own = FALSE, !.sprite = 0] \in ObjPixel
               /\ [p EXCEPT !.own = FALSE, !.sprite = 0].own = FALSE
    BY DEF ObjPixel
  <2> QED
    BY <2>1, <2>2, Zenon
<1>5. n.sprite_fifo \in [1..Len(f) -> ObjPixel]
  BY <1>1, <1>3, <1>4, Zenon
<1>6. Len(n.sprite_fifo) = Len(f)
  BY <1>3, <1>5, SeqMade, Zenon
<1>7. \A i \in 1..Len(f) : ~n.sprite_fifo[i].own
  BY <1>1, <1>3, <1>4, Zenon
<1> QED
  BY <1>1, <1>3, <1>6, <1>7, Zenon DEF Leftovers, n

LEMMA PictureTick == TypeInv /\ PictureInv /\ DrawTick => PictureInv'
<1> SUFFICES ASSUME TypeInv, PictureInv, DrawTick PROVE PictureInv'
  OBVIOUS
<1>1. /\ Setup /\ Drawable(d) /\ d.framebuffer_x < Width /\ mode = "DRAW"
      /\ UNCHANGED <<oam, scx, wx, obj_enable, wnd_enable, sprite_buffer, reached_window_y>>
      /\ line'.steady = line.steady /\ line.steady \in BOOLEAN
  BY ListAfterTick, Zenon DEF TypeInv, PictureInv, DrawTick, settings
<1>2. PICK c : c = Fetched
  BY Zenon
<1>3. PICK e : e = Pushed(c)
  BY Zenon
<1>4. Drawable(c) /\ c.framebuffer_x = d.framebuffer_x
  BY <1>1, <1>2, FetchedFields, Zenon DEF Fetched
<1>5. Drawable(e)
  BY <1>1, <1>3, <1>4, PushedDrawable, Zenon
<1>6. /\ c.framebuffer_x \in Nat /\ e.framebuffer_x \in Nat /\ Width \in Nat
      /\ c.framebuffer_x < Width
  BY <1>1, <1>4, <1>5, FetcherAssumption, Zenon DEF Drawable, Counters, FetcherAssumption
<1>7. CASE e.framebuffer_x >= Width
  <2>1. mode' = "HBLANK" /\ d' = Finished(e)
    BY <1>2, <1>3, <1>7, Zenon DEF DrawTick
  <2>2. e.sprite_fifo = Popped(c.sprite_fifo)
    <3>1. e.framebuffer_x # c.framebuffer_x
      BY <1>6, <1>7
    <3> QED
      BY <1>3, <1>4, <3>1, PushedX, Zenon
  <2>3. d'.fetch_x = 0 /\ Leftovers(d)'
    <3>1. Leftovers(d')
      BY <1>4, <1>5, <2>1, <2>2, LeftByLine, Zenon
    <3> QED
      BY <1>4, <1>5, <2>1, <2>2, <3>1, LeftByLine, Zenon DEF Leftovers
  <2>4. line'.steady => /\ IsList(oam, sprite_buffer)' /\ Fetches(Len(line.merged))'
                        /\ PixelShown'
    BY <1>1, <1>2, SteadyTick, Zenon
  <2>5. mode' \notin {"OFF", "OAM_SCAN"} /\ mode' # "DRAW"
    BY <2>1
  <2> QED
    BY <1>1, <2>3, <2>4, <2>5, Zenon DEF PictureInv, LineShown
<1>8. CASE ~(e.framebuffer_x >= Width)
  <2>1. mode' = "DRAW" /\ d' = e
    BY <1>1, <1>2, <1>3, <1>8, Zenon DEF DrawTick
  <2>2. mode' \notin {"OFF", "OAM_SCAN"} /\ mode' \notin {"OAM_SCAN", "HBLANK"}
    BY <2>1
  <2>3. ASSUME line'.steady
        PROVE  /\ IsList(oam, sprite_buffer)' /\ Fetches(Len(line.merged))' /\ PixelShown'
               /\ FetchedBy(d.framebuffer_x)'
               /\ SpritesInOrder(d, Len(line.merged))'
               /\ BackgroundShown(d)'
    <3>1. PICK m : m = Len(line'.merged)
      BY Zenon
    <3>2. /\ IsList(oam, sprite_buffer)' /\ Fetches(Len(line.merged))'
          /\ FetchedBy(c.framebuffer_x)' /\ PixelShown'
          /\ SpritesInOrder(c, m) /\ InTimeNext(c, m) /\ BackgroundShown(c)
      BY <1>1, <1>2, <2>3, <3>1, SteadyTick, Zenon
    <3>3. SpritesInOrder(e, m)
      BY <1>3, <1>4, <3>2, PushSprites, Zenon
    <3>4. BackgroundShown(e)
      <4>1. e.framebuffer_x < Width
        BY <1>6, <1>8
      <4> QED
        BY <1>1, <1>3, <1>4, <3>2, <4>1, PushBackground, Zenon
    <3>5. FetchedBy(d.framebuffer_x)'
      <4>1. c.framebuffer_x <= e.framebuffer_x
        <5>1. \/ e.framebuffer_x = c.framebuffer_x
              \/ e.framebuffer_x = c.framebuffer_x + 1
          BY <1>3, <1>4, PushedX, Zenon
        <5> QED
          BY <1>6, <5>1
      <4>2. FetchedBy(e.framebuffer_x)'
        <5>1. \A k \in 1..Len(line'.merged) : line'.merged[k].at \in Nat
          <6>1. line'.merged \in Seq([sprite: Nat, at: Nat])
            BY <3>2, Zenon DEF Fetches
          <6>2. \A p \in [sprite: Nat, at: Nat] : p.at \in Nat
            OBVIOUS
          <6> QED
            BY <6>1, <6>2, ElementOfSeq, Zenon
        <5>2. \A a \in Nat : a <= c.framebuffer_x => a <= e.framebuffer_x
          BY <1>6, <4>1
        <5> QED
          BY <3>2, <5>1, <5>2, Zenon DEF FetchedBy
      <4> QED
        BY <2>1, <4>2, Zenon
    <3>6. SpritesInOrder(d, Len(line.merged))' /\ BackgroundShown(d)'
      BY <1>1, <2>1, <3>1, <3>3, <3>4, SameLine, Zenon
    <3> QED
      BY <3>2, <3>5, <3>6, Zenon
  <2> QED
    BY <1>1, <2>2, <2>3, Zenon DEF PictureInv, LineShown, LineGoesOn, SpritesInOrder
<1> QED
  BY <1>7, <1>8

\* A line that begins after an HBLANK, with the list of its scan.
LineStart ==
  /\ Setup /\ IsList(oam, sprite_buffer) /\ Drawable(d)
  /\ d.framebuffer_x = 0 /\ d.processed_pixels = 0 /\ d.fetch_x = 0 /\ d.sprite_index = 0
  /\ d.bg_wnd_fifo = <<>> /\ d.bg_wnd_fetch_step = 0
  /\ ~d.reached_window_x /\ ~d.sprite_fetch_active
  /\ Leftovers(d)
  /\ line.merged = <<>>
  /\ shown = Nothing

LEMMA LineStarts == LineStart => LineShown /\ LineGoesOn
<1> SUFFICES ASSUME LineStart PROVE LineShown /\ LineGoesOn
  OBVIOUS
<1>0. /\ Setup /\ IsList(oam, sprite_buffer) /\ Drawable(d)
      /\ d.framebuffer_x = 0 /\ d.processed_pixels = 0 /\ d.fetch_x = 0 /\ d.sprite_index = 0
      /\ d.bg_wnd_fifo = <<>> /\ d.bg_wnd_fetch_step = 0
      /\ ~d.reached_window_x /\ ~d.sprite_fetch_active
      /\ Leftovers(d) /\ line.merged = <<>> /\ shown = Nothing
  BY Zenon DEF LineStart
<1>1. Len(<<>>) = 0 /\ 1..0 = {} /\ \A S : <<>> \in Seq(S)
  BY EmptySeq
<1>2. Len(line.merged) = 0
  BY <1>0, <1>1, Zenon
<1>3. Len(sprite_buffer) \in Nat /\ Len(d.sprite_fifo) \in Nat
  BY <1>0, LenProperties, Zenon DEF Setup, Drawable, Fifos
<1>4. Fetches(0) /\ PixelShown /\ FetchedBy(0)
  <2>1. 0 <= Len(sprite_buffer)
    BY <1>3
  <2> QED
    BY <1>0, <1>1, <1>2, <2>1, Zenon DEF Fetches, PixelShown, FetchedBy
<1>5. SpriteFetched(d, 0)
  BY <1>0, Zenon DEF SpriteFetched
<1>6. SpritesShown(d, 0)
  <2>1. \A x : Clear(x, 0)
    BY <1>1, Zenon DEF Clear
  <2>2. ASSUME NEW i \in 1..Len(d.sprite_fifo)
        PROVE  Shows(d.sprite_fifo[i], 0 + (i - 1), 0)
    <3>1. Len(d.sprite_fifo) < Fifo /\ ~d.sprite_fifo[i].own
      BY <1>0, Zenon DEF Leftovers
    <3>2. \A l \in Nat : l < Fifo => \A j \in 1..l : 0 + (j - 1) < Fifo - 1
      BY DEF Fifo
    <3>3. 0 + (i - 1) < Fifo - 1
      BY <1>3, <3>1, <3>2, Zenon
    <3> QED
      BY <2>1, <3>1, <3>3, Zenon DEF Shows
  <2> QED
    BY <1>0, <2>1, <2>2, Zenon DEF SpritesShown
<1>7. InTime(d, 0)
  <2> SUFFICES ASSUME 0 < Len(sprite_buffer) PROVE 0 <= Due(0 + 1)
    BY <1>0, Zenon DEF InTime
  <2>1. 0 + 1 \in 1..Len(sprite_buffer)
    BY <1>3
  <2>2. Due(0 + 1) \in Nat
    BY <1>0, <2>1, DueInOrder, Zenon
  <2> QED
    BY <2>2
<1>8. BackgroundShown(d)
  <2>1. WindowStart \in Int /\ WindowStart >= 1 /\ scx % 8 \in Nat
    BY <1>0, WindowBegins, ScrollParts, Zenon
  <2>2. /\ 0 < WindowStart /\ (~(0 < scx % 8) => 0 = 0 + (scx % 8))
        /\ 0 + 0 = Fifo * 0 /\ 0 \notin 1..6
    BY <2>1 DEF Fifo
  <2>3. Scrolled(d)
    BY <1>0, <1>1, <2>2, Zenon DEF Scrolled
  <2> QED
    BY <1>0, <2>2, <2>3, Zenon DEF BackgroundShown
<1> QED
  BY <1>0, <1>2, <1>4, <1>5, <1>6, <1>7, <1>8, Zenon DEF LineShown, LineGoesOn

LEMMA LineStartsNext == LineStart' => (LineShown /\ LineGoesOn)'
BY LineStarts, PTL

LEMMA PictureScan == TypeInv /\ LineInv /\ PictureInv /\ TypeInv' /\ ScanEnds => PictureInv'
<1> SUFFICES ASSUME TypeInv, LineInv, PictureInv, TypeInv', ScanEnds PROVE PictureInv'
  OBVIOUS
<1>1. /\ mode = "OAM_SCAN" /\ mode' = "DRAW" /\ d' = [d EXCEPT !.sprite_index = 0]
      /\ line' = NewLine(~d.reached_window_x /\ ~d.sprite_fetch_active
                         /\ d.bg_wnd_fetch_step = 0)
      /\ shown' = shown /\ DOMAIN d = Names
  BY Zenon DEF ScanEnds, TypeInv, Drawable
<1>2. /\ d.framebuffer_x = 0 /\ d.processed_pixels = 0 /\ d.bg_wnd_fifo = <<>>
      /\ d.fetch_x = 0 /\ Leftovers(d) /\ shown = Nothing
  <2>1. mode \in {"OAM_SCAN", "HBLANK"} /\ mode \in {"OFF", "OAM_SCAN"}
    BY <1>1
  <2> QED
    BY <2>1, Zenon DEF LineInv, PictureInv
<1>3. /\ d'.framebuffer_x = 0 /\ d'.processed_pixels = 0 /\ d'.bg_wnd_fifo = <<>>
      /\ d'.fetch_x = 0 /\ d'.sprite_index = 0
      /\ d'.bg_wnd_fetch_step = d.bg_wnd_fetch_step
      /\ d'.reached_window_x = d.reached_window_x
      /\ d'.sprite_fetch_active = d.sprite_fetch_active
      /\ d'.sprite_fifo = d.sprite_fifo
  BY <1>1, <1>2, Zenon DEF Names
<1>4. /\ line'.merged = <<>>
      /\ line'.steady = (~d.reached_window_x /\ ~d.sprite_fetch_active
                         /\ d.bg_wnd_fetch_step = 0)
  BY <1>1, Zenon DEF NewLine
<1>5. line'.steady => LineStart'
  <2>1. Setup' /\ Drawable(d)'
    BY Zenon DEF TypeInv
  <2>2. Leftovers(d)'
    BY <1>2, <1>3, Zenon DEF Leftovers
  <2>3. IsList(oam, sprite_buffer)'
    BY ScanSettings, Zenon DEF IsList
  <2> QED
    BY <1>1, <1>2, <1>3, <1>4, <2>1, <2>2, <2>3, Zenon DEF LineStart
<1>6. line'.steady \in BOOLEAN
  BY <1>4
<1>7. mode' \notin {"OAM_SCAN", "HBLANK"} /\ mode' \notin {"OFF", "OAM_SCAN"}
  BY <1>1
<1> QED
  BY <1>1, <1>5, <1>6, <1>7, LineStartsNext, Zenon DEF PictureInv

LEMMA PictureNext ==
  TypeInv /\ LineInv /\ PictureInv /\ TypeInv' /\ [Next]_vars => PictureInv'
<1> SUFFICES ASSUME TypeInv, LineInv, PictureInv, TypeInv', [Next]_vars PROVE PictureInv'
  OBVIOUS
<1>0. line.steady \in BOOLEAN /\ DOMAIN d = Names /\ DOMAIN line = LineFields
  BY Zenon DEF PictureInv, TypeInv, Drawable
<1>1. CASE HblankEnds
  <2>1. /\ line' = line /\ mode' = "OAM_SCAN" /\ mode = "HBLANK" /\ shown' = Nothing
        /\ \/ d' = [d EXCEPT !.reached_window_x = FALSE]
           \/ d' = [d EXCEPT !.reached_window_x = FALSE, !.window_line_counter = 0]
    BY <1>1, Zenon DEF HblankEnds
  <2>2. d'.fetch_x = d.fetch_x /\ d'.sprite_fifo = d.sprite_fifo
    BY <1>0, <2>1, Zenon DEF Names
  <2>3. mode' \notin {"DRAW", "HBLANK"} /\ mode' # "DRAW" /\ mode \in {"OAM_SCAN", "HBLANK"}
    BY <2>1
  <2> QED
    BY <1>0, <2>1, <2>2, <2>3, Zenon DEF PictureInv, Leftovers
<1>2. CASE SwitchOff
  <2>1. mode' = "OFF" /\ shown' = Nothing /\ line' = line
    BY <1>2, Zenon DEF SwitchOff
  <2>2. mode' \notin {"DRAW", "HBLANK"} /\ mode' # "DRAW" /\ mode' \notin {"OAM_SCAN", "HBLANK"}
    BY <2>1
  <2> QED
    BY <1>0, <2>1, <2>2, Zenon DEF PictureInv
<1>3. CASE SwitchOn
  <2>1. /\ mode = "OFF" /\ mode' = "OAM_SCAN" /\ line' = line /\ shown' = shown
        /\ d' = [d EXCEPT !.framebuffer_x = 0, !.processed_pixels = 0, !.fetch_x = 0,
                          !.is_first_fetch = TRUE, !.bg_wnd_fifo = <<>>, !.sprite_fifo = <<>>]
    BY <1>3, Zenon DEF SwitchOn
  <2>2. d'.fetch_x = 0 /\ d'.sprite_fifo = <<>>
    BY <1>0, <2>1, Zenon DEF Names
  <2>3. Leftovers(d)'
    <3>1. Len(<<>>) = 0 /\ 1..0 = {} /\ 0 < Fifo
      BY EmptySeq DEF Fifo
    <3> QED
      BY <2>2, <3>1, Zenon DEF Leftovers
  <2>4. mode' \notin {"DRAW", "HBLANK"} /\ mode' # "DRAW" /\ mode \in {"OFF", "OAM_SCAN"}
    BY <2>1
  <2> QED
    BY <1>0, <2>1, <2>2, <2>3, <2>4, Zenon DEF PictureInv
<1>4. CASE Change
  <2>1. /\ mode = "DRAW" /\ mode' = mode
        /\ line' = [line EXCEPT !.changes = @ + 1, !.steady = FALSE, !.merged = <<>>]
    BY <1>4, Zenon DEF Change
  <2>2. line'.steady = FALSE
    BY <1>0, <2>1, Zenon DEF LineFields
  <2>3. mode' \notin {"OFF", "OAM_SCAN"} /\ mode' \notin {"OAM_SCAN", "HBLANK"}
    BY <2>1
  <2> QED
    BY <2>2, <2>3, Zenon DEF PictureInv
<1>5. CASE UNCHANGED vars
  <2>1. UNCHANGED <<mode, oam, scx, wx, obj_enable, wnd_enable, sprite_buffer,
                    reached_window_y, d, line, shown>>
    BY <1>5, Zenon DEF vars, settings
  <2>2. IsList(oam, sprite_buffer) => IsList(oam, sprite_buffer)'
    <3>1. IsList(oam, sprite_buffer) => IsList(oam', sprite_buffer')
      BY <2>1, Zenon
    <3> QED
      BY <3>1, Zenon DEF IsList
  <2>3. Fetches(Len(line.merged)) => Fetches(Len(line.merged))'
    BY <2>1, SameLine, Zenon DEF Fetches
  <2>4. PixelShown => PixelShown'
    BY <2>1, SameLine, Zenon DEF PixelShown, FetchedBy
  <2>5. mode = "DRAW" /\ line.steady =>
          /\ FetchedBy(d.framebuffer_x)'
          /\ SpritesInOrder(d, Len(line.merged))' /\ BackgroundShown(d)'
    BY <2>1, SameLine, Zenon DEF PictureInv, LineGoesOn, SpritesInOrder, FetchedBy
  <2>6. Leftovers(d) => Leftovers(d)'
    BY <2>1, Zenon DEF Leftovers
  <2> QED
    BY <2>1, <2>2, <2>3, <2>4, <2>5, <2>6, Zenon DEF PictureInv, LineShown, LineGoesOn, SpritesInOrder
<1> QED
  BY <1>1, <1>2, <1>3, <1>4, <1>5, PictureTick, PictureScan, Zenon DEF Next

LEMMA PictureInvHolds == Spec => [](TypeInv /\ PictureInv)
<1>1. Init => LineInv
  BY LineInit
<1>2. Init => PictureInv
  <2> SUFFICES ASSUME Init PROVE PictureInv
    OBVIOUS
  <2>1. mode = "OFF" /\ shown = Nothing /\ line.steady = TRUE
    BY Zenon DEF Init, NewLine
  <2>2. mode \notin {"OAM_SCAN", "HBLANK"} /\ mode \notin {"DRAW", "HBLANK"} /\ mode # "DRAW"
    BY <2>1
  <2> QED
    BY <2>1, <2>2, Zenon DEF PictureInv
<1>3. TypeInv /\ LineInv /\ [Next]_vars => LineInv'
  BY LineNext
<1>4. TypeInv /\ LineInv /\ PictureInv /\ TypeInv' /\ [Next]_vars => PictureInv'
  BY PictureNext
<1> QED
  BY <1>1, <1>2, <1>3, <1>4, TypeInvHolds, PTL DEF Spec

\* Every pixel that a steady line shows comes from the background at SCX or,
\* from its start on, from the window, without a gap or a repetition, however
\* often sprites stop and restart the fetch of a tile.
THEOREM BackgroundInOrderCorrect == Spec => []BackgroundInOrder
<1>1. PictureInv /\ TypeInv => BackgroundInOrder
  <2> SUFFICES ASSUME PictureInv, TypeInv, line.steady, shown # Nothing
               PROVE  shown.bg = RightPixel(shown.x)
    BY Zenon DEF BackgroundInOrder, RightPixel
  <2>1. mode \in {"DRAW", "HBLANK"}
    <3>1. mode \notin {"OFF", "OAM_SCAN"} /\ mode \in Modes
      BY Zenon DEF PictureInv, TypeInv
    <3> QED
      BY <3>1 DEF Modes
  <2> QED
    BY <2>1, Zenon DEF PictureInv, LineShown, PixelShown
<1> QED
  BY <1>1, PictureInvHolds, PTL

\* Of the sprites that were fetched before a pixel of a steady line was drawn,
\* the first by X and then by OAM index that is opaque there is the one in the
\* pixel; what the line before left in the FIFO covers the first seven at most.
THEOREM FirstSpriteWinsCorrect == Spec => []FirstSpriteWins
<1>1. PictureInv /\ TypeInv => FirstSpriteWins
  <2> SUFFICES ASSUME PictureInv, TypeInv, line.steady, shown # Nothing
               PROVE  IF shown.obj.own
                      THEN IF Winner(shown.x) = 0 THEN ~shown.obj.opaque
                           ELSE shown.obj.opaque /\ shown.obj.sprite = Winner(shown.x)
                      ELSE shown.x < Fifo - 1 /\ (shown.obj.opaque \/ Winner(shown.x) = 0)
    BY Zenon DEF FirstSpriteWins
  <2>1. mode \in {"DRAW", "HBLANK"} /\ Setup
    <3>1. mode \notin {"OFF", "OAM_SCAN"} /\ mode \in Modes /\ Setup
      BY Zenon DEF PictureInv, TypeInv
    <3> QED
      BY <3>1, Zenon DEF Modes
  <2> DEFINE n == Len(line.merged)
             x == shown.x
             p == shown.obj
  <2>2. /\ IsList(oam, sprite_buffer) /\ Fetches(n) /\ x \in Nat /\ FetchedBy(x)
        /\ Shows(p, x, n)
    BY <2>1, Zenon DEF PictureInv, LineShown, PixelShown
  <2>3. /\ Clear(x, n) => Winner(x) = 0
        /\ \A k \in 1..n : FirstAt(k, x) => Winner(x) = sprite_buffer[k]
    <3>1. x \in Int
      BY <2>2
    <3> QED
      BY <2>1, <2>2, <3>1, WinnerIsFirst, Zenon
  <2>4. \A k \in 1..n : sprite_buffer[k] # 0
    <3>1. n \in Nat /\ n <= Len(sprite_buffer) /\ Len(sprite_buffer) \in Nat
      BY <2>1, <2>2, LenProperties, Zenon DEF Fetches, Setup
    <3>2. \A a, b \in Nat : a <= b => \A k \in 1..a : k \in 1..b
      OBVIOUS
    <3> QED
      BY <2>1, <3>1, <3>2, ListedSprites, Zenon
  <2> QED
    BY <2>2, <2>3, <2>4, Zenon DEF Shows
<1> QED
  BY <1>1, PictureInvHolds, PTL

\* The k-th sprite of a steady line with objects on is fetched no later than at
\* its first pixel plus one for each sprite before it.
THEOREM SpritesOnTimeCorrect == Spec => []SpritesOnTime
<1>1. PictureInv /\ TypeInv => SpritesOnTime
  <2> SUFFICES ASSUME PictureInv, TypeInv, line.steady, obj_enable, mode = "DRAW",
                      NEW k \in DOMAIN sprite_buffer,
                      Max({0, oam[sprite_buffer[k]].x - 8}) + k - 1 < d.framebuffer_x
               PROVE  \E m \in DOMAIN line.merged :
                        /\ line.merged[m].sprite = sprite_buffer[k]
                        /\ line.merged[m].at <= Max({0, oam[sprite_buffer[k]].x - 8}) + k - 1
    BY Zenon DEF SpritesOnTime
  <2>1. mode \in {"DRAW", "HBLANK"}
    OBVIOUS
  <2> DEFINE n == Len(line.merged)
  <2>2. /\ Setup /\ IsList(oam, sprite_buffer) /\ Fetches(n) /\ InTime(d, n)
        /\ d.framebuffer_x \in Nat
    BY <2>1, Zenon DEF PictureInv, LineShown, LineGoesOn, TypeInv, Drawable, Counters
  <2>3. /\ n \in Nat /\ DOMAIN line.merged = 1..n /\ n <= Len(sprite_buffer)
        /\ Len(sprite_buffer) \in Nat /\ DOMAIN sprite_buffer = 1..Len(sprite_buffer)
    BY <2>2, LenProperties, Zenon DEF Fetches, Setup
  <2>4. k \in 1..Len(sprite_buffer) /\ k \in Nat /\ k >= 1
    BY <2>3
  <2>5. SpriteX(k) \in Nat
    BY <2>2, <2>4, ListedSprites, Zenon
  <2>6. Max({0, oam[sprite_buffer[k]].x - 8}) + k - 1 = Due(k) /\ Due(k) \in Nat
    <3> DEFINE a == Max({0, SpriteX(k) - 8})
    <3>1. a \in Int
      BY <2>5 DEF Max
    <3> HIDE DEF a
    <3>2. a + k - 1 = a + (k - 1)
      BY <2>4, <3>1
    <3>3. Due(k) \in Nat
      BY <2>2, <2>4, DueInOrder, Zenon
    <3> QED
      BY <3>2, <3>3, Zenon DEF a, Due, SpriteX
  <2>7. k <= n
    <3> SUFFICES ASSUME n < k PROVE FALSE
      BY <2>3, <2>4
    <3>1. n + 1 \in 1..Len(sprite_buffer) /\ n < Len(sprite_buffer)
          /\ (n + 1 = k \/ n + 1 < k)
      BY <2>3, <2>4
    <3>2. Due(n + 1) \in Nat /\ (n + 1 < k => Due(n + 1) + 1 <= Due(k))
      BY <2>2, <2>4, <3>1, DueInOrder, Zenon
    <3>3. d.framebuffer_x <= Due(n + 1)
      BY <2>2, <3>1, Zenon DEF InTime
    <3>4. Due(k) < d.framebuffer_x
      BY <2>6, Zenon
    <3> HIDE DEF n
    <3>5. \A a, b, f \in Nat : a + 1 <= b /\ f <= a => ~(b < f)
      OBVIOUS
    <3>6. \A b, f \in Nat : f <= b => ~(b < f)
      OBVIOUS
    <3> QED
      BY <2>2, <2>6, <3>1, <3>2, <3>3, <3>4, <3>5, <3>6, Zenon
  <2>8. k \in 1..n
    BY <2>3, <2>4, <2>7
  <2>9. line.merged[k].sprite = sprite_buffer[k] /\ line.merged[k].at <= Due(k)
    BY <2>2, <2>8, Zenon DEF Fetches
  <2> QED
    BY <2>3, <2>6, <2>8, <2>9, Zenon
<1> QED
  BY <1>1, PictureInvHolds, PTL
=============================================================================
