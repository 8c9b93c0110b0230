------------------------------ MODULE Fetcher ------------------------------
(***************************************************************************)
(* How a line is drawn (lib/ppu.c): the OAM scan's list of sprites, the    *)
(* background and window fetcher, the sprite fetcher, the two pixel FIFOs  *)
(* between them and the LCD, and what the end of a line and the LCD switch *)
(* do to them.  Ppu takes a line for a number of ticks; here it is drawn   *)
(* tick by tick.                                                           *)
(*                                                                         *)
(* Of a pixel the model keeps where it comes from: its column in the       *)
(* background or the window, or its sprite, and whether it is transparent. *)
(* Rows, tile numbers, palettes and flips select data and nothing else.    *)
(***************************************************************************)
EXTENDS Integers, Sequences, FiniteSets, FiniteSetsExt

CONSTANTS
  Width,        \* SCREEN_WIDTH: 160
  MapWidth,     \* TILE_MAP_WIDTH: 32
  Sprites,      \* PPU_OAM_SPRITES: 40
  LineSprites,  \* PPU_SCANLINE_SPRITES: 10
  Solid,        \* the columns of every tile in which it is not transparent
  Settings,     \* OAM and registers that software sets up for a line
  Inputs,       \* the settings it may change while a line is drawn
  MaxWindowLines, \* bound on window_line_counter
  MaxChanges,   \* bound on such changes and LCD switches in a line
  Spent         \* those that a line counts from its start, when it does not
                \* begin as one after an HBLANK does: 0 bounds all lines alike

Fifo == 8 \* PPU_PIXEL_FIFO_SIZE and PPU_SPRITE_W

Pattern == SUBSET (0..(Fifo - 1))

\* An OAM entry: its X, the pixels that each byte of its row sets, and
\* whether it is behind the background.
Sprite == [x: 0..255, lo: Pattern, hi: Pattern, behind: BOOLEAN]

ASSUME FetcherAssumption ==
  /\ Width \in Nat \ {0}
  /\ MapWidth \in Nat \ {0}
  /\ Sprites \in Nat
  /\ LineSprites \in Nat \ {0}
  /\ Solid \in Pattern
  /\ \A s \in Settings \union Inputs :
       /\ DOMAIN s = {"oam", "scx", "wx", "obj_enable", "wnd_enable"}
       /\ s.oam \in [1..Sprites -> Sprite]
       /\ s.scx \in 0..255 /\ s.wx \in 0..255
       /\ s.obj_enable \in BOOLEAN /\ s.wnd_enable \in BOOLEAN
  /\ MaxWindowLines \in Nat \ {0}
  /\ MaxChanges \in Nat /\ Spent \in 0..MaxChanges

VARIABLES
  mode,             \* stat.mode, and OFF
  oam,
  sprite_buffer,    \* the sprites of the line, by X and then by OAM index
  d,                \* the state of the drawing: the fields of fgb_ppu
  scx, wx, obj_enable, wnd_enable,
  reached_window_y,
  shown,            \* history: the pixel that the last tick drew
  line              \* history: what this line has seen so far

settings == <<oam, scx, wx, obj_enable, wnd_enable>>
vars == <<mode, sprite_buffer, d, settings, reached_window_y, shown, line>>

Modes == {"OFF", "OAM_SCAN", "DRAW", "HBLANK"}

Tile == [window: BOOLEAN, column: Nat]
BgPixel == Tile
NoTile == [window |-> FALSE, column |-> 0]

\* own: it belongs to a sprite of the line that is being drawn.
ObjPixel == [sprite: Nat, opaque: BOOLEAN, behind: BOOLEAN, own: BOOLEAN]
Blank == [sprite |-> 0, opaque |-> FALSE, behind |-> FALSE, own |-> TRUE]

Nothing == [x |-> -1, bg |-> NoTile, obj |-> Blank, front |-> FALSE]

\* steady: the line began as one after an HBLANK does, with a list of its own,
\* and no register and no sprite has changed since; merged: which sprites
\* entered the sprite FIFO so far, and at which pixel.
NewLine(steady) ==
  [ticks |-> 0, changes |-> IF steady THEN 0 ELSE Spent, steady |-> steady, merged |-> <<>>]

\* The ticks that a line may take; line.ticks is bounded by one more.
LineLimit == 17 + Width + 7 + 6 + 13 * LineSprites

\* fgb_ppu_reset: the LCD is off.
Init ==
  /\ mode = "OFF"
  /\ sprite_buffer = <<>>
  /\ d = [bg_wnd_fifo |-> <<>>, sprite_fifo |-> <<>>,
          bg_wnd_fetch_step |-> 0, sprite_fetch_step |-> 0,
          fetch_x |-> 0, tile |-> NoTile, is_first_fetch |-> TRUE,
          sprite_fetch_active |-> FALSE, sprite_index |-> 0, current_sprite |-> 0,
          lo |-> {}, hi |-> {},
          framebuffer_x |-> 0, processed_pixels |-> 0,
          reached_window_x |-> FALSE, window_line_counter |-> 0]
  /\ oam = <<>> /\ scx = 0 /\ wx = 0 /\ obj_enable = FALSE /\ wnd_enable = FALSE
  /\ reached_window_y = FALSE
  /\ shown = Nothing
  /\ line = NewLine(TRUE)

-----------------------------------------------------------------------------
(* The steps of one tick; q is the drawing state before the step.          *)

\* Mutant of BeginSprite: the sprite has to lie left of the pixel.
BeginSpriteLate(q) ==
  IF /\ q.sprite_index < Len(sprite_buffer)
     /\ obj_enable
     /\ ~q.sprite_fetch_active
     /\ oam[sprite_buffer[q.sprite_index + 1]].x < q.framebuffer_x + 8
  THEN [q EXCEPT !.current_sprite = sprite_buffer[q.sprite_index + 1],
                 !.sprite_fetch_active = TRUE,
                 !.sprite_index = @ + 1,
                 !.sprite_fetch_step = 0,
                 !.bg_wnd_fetch_step = 0]
  ELSE q

\* A sprite fetch begins when the next sprite reaches the pixel to be drawn.
BeginSprite(q) ==
  IF /\ q.sprite_index < Len(sprite_buffer)
     /\ obj_enable
     /\ ~q.sprite_fetch_active
     /\ oam[sprite_buffer[q.sprite_index + 1]].x <= q.framebuffer_x + 8
  THEN [q EXCEPT !.current_sprite = sprite_buffer[q.sprite_index + 1],
                 !.sprite_fetch_active = TRUE,
                 !.sprite_index = @ + 1,
                 !.sprite_fetch_step = 0,
                 !.bg_wnd_fetch_step = 0]
  ELSE q

\* Mutant of Merged: a later sprite overwrites an earlier one.
MergedOver(q) ==
  LET s == oam[q.current_sprite]
      first == s.x - 8 - q.framebuffer_x
      covered == {i \in 0..(Fifo - 1) : i - first \in 0..(Fifo - 1)}
      Pixel(i) == [sprite |-> q.current_sprite, opaque |-> (i - first) \in q.lo \union q.hi,
                   behind |-> s.behind, own |-> TRUE]
      old == q.sprite_fifo
      length == Max({Len(old)} \union {i + 1 : i \in covered})
  IN [i \in 1..length |->
        IF i <= Len(old) /\ i - 1 \notin covered THEN old[i]
        ELSE IF i - 1 \in covered THEN Pixel(i - 1) ELSE Blank]

\* Mutant of Merged: pixels too far to the right are not left out.
MergedWide(q) ==
  LET s == oam[q.current_sprite]
      first == s.x - 8 - q.framebuffer_x
      covered == {i \in 0..255 : i - first \in 0..(Fifo - 1)}
      Pixel(i) == [sprite |-> q.current_sprite, opaque |-> (i - first) \in q.lo \union q.hi,
                   behind |-> s.behind, own |-> TRUE]
      old == q.sprite_fifo
      length == Max({Len(old)} \union {i + 1 : i \in covered})
  IN [i \in 1..length |->
        IF i <= Len(old) /\ (old[i].opaque \/ i - 1 \notin covered) THEN old[i]
        ELSE IF i - 1 \in covered THEN Pixel(i - 1) ELSE Blank]

\* The eight pixels of a sprite go into the sprite FIFO, which starts at
\* framebuffer_x: over transparent ones, and beyond its end after blanks.
Merged(q) ==
  LET s == oam[q.current_sprite]
      first == s.x - 8 - q.framebuffer_x
      covered == {i \in 0..(Fifo - 1) : i - first \in 0..(Fifo - 1)}
      Pixel(i) == [sprite |-> q.current_sprite, opaque |-> (i - first) \in q.lo \union q.hi,
                   behind |-> s.behind, own |-> TRUE]
      old == q.sprite_fifo
      length == Max({Len(old)} \union {i + 1 : i \in covered})
  IN [i \in 1..length |->
        IF i <= Len(old) /\ (old[i].opaque \/ i - 1 \notin covered) THEN old[i]
        ELSE IF i - 1 \in covered THEN Pixel(i - 1) ELSE Blank]

\* Two ticks each for the tile, its low and its high byte, and the push.  What
\* the next fetch writes before it reads is cleared.
SpriteTick(q) ==
  LET n == [q EXCEPT !.sprite_fetch_step = @ + 1]
  IN IF ~q.sprite_fetch_active THEN q
     ELSE CASE q.sprite_fetch_step = 2 -> [n EXCEPT !.lo = oam[q.current_sprite].lo]
            [] q.sprite_fetch_step = 4 -> [n EXCEPT !.hi = oam[q.current_sprite].hi]
            [] q.sprite_fetch_step = 6 ->
                 [q EXCEPT !.sprite_fifo = Merged(q), !.sprite_fetch_active = FALSE,
                           !.sprite_fetch_step = 0, !.current_sprite = 0,
                           !.lo = {}, !.hi = {}]
            [] OTHER -> n

\* fgb_ppu_get_tile_id
TileAt(q) ==
  [window |-> q.reached_window_x,
   column |-> IF q.reached_window_x THEN q.fetch_x ELSE (q.fetch_x + scx \div 8) % MapWidth]

TilePixels(t) == [i \in 1..Fifo |-> [t EXCEPT !.column = Fifo * @ + i - 1]]

\* Mutant of BgTick: the tile is counted when its fetch begins.
BgTickCountsEarly(q) ==
  LET n == [q EXCEPT !.bg_wnd_fetch_step = (@ + 1) % 8]
  IN IF q.sprite_fetch_active THEN q
     ELSE CASE q.bg_wnd_fetch_step = 0 -> [n EXCEPT !.tile = TileAt(q), !.fetch_x = @ + 1]
            [] q.bg_wnd_fetch_step = 5 /\ q.is_first_fetch ->
                 [n EXCEPT !.bg_wnd_fetch_step = 0, !.fetch_x = 0, !.is_first_fetch = FALSE]
            [] q.bg_wnd_fetch_step = 6 /\ q.bg_wnd_fifo = <<>> ->
                 [n EXCEPT !.bg_wnd_fifo = TilePixels(q.tile), !.tile = NoTile]
            [] OTHER -> n

\* Mutant of BgTick: the first fetch is repeated for ever.
BgTickRepeats(q) ==
  LET n == [q EXCEPT !.bg_wnd_fetch_step = (@ + 1) % 8]
  IN IF q.sprite_fetch_active THEN q
     ELSE CASE q.bg_wnd_fetch_step = 0 -> [n EXCEPT !.tile = TileAt(q)]
            [] q.bg_wnd_fetch_step = 5 /\ q.is_first_fetch ->
                 [n EXCEPT !.bg_wnd_fetch_step = 0]
            [] q.bg_wnd_fetch_step = 6 /\ q.bg_wnd_fifo = <<>> ->
                 [n EXCEPT !.bg_wnd_fifo = TilePixels(q.tile), !.tile = NoTile,
                           !.fetch_x = @ + 1]
            [] OTHER -> n

\* The background fetch: paused by a sprite fetch, repeated once at the start
\* of a line, and started over when the FIFO is not empty at its push.
BgTick(q) ==
  LET n == [q EXCEPT !.bg_wnd_fetch_step = (@ + 1) % 8]
  IN IF q.sprite_fetch_active THEN q
     ELSE CASE q.bg_wnd_fetch_step = 0 -> [n EXCEPT !.tile = TileAt(q)]
            [] q.bg_wnd_fetch_step = 5 /\ q.is_first_fetch ->
                 [n EXCEPT !.bg_wnd_fetch_step = 0, !.is_first_fetch = FALSE]
            [] q.bg_wnd_fetch_step = 6 /\ q.bg_wnd_fifo = <<>> ->
                 [n EXCEPT !.bg_wnd_fifo = TilePixels(q.tile), !.tile = NoTile, !.fetch_x = @ + 1]
            [] OTHER -> n

Fetched == BgTick(SpriteTick(BeginSprite(d)))

\* The pixel that a tick draws, if it draws one.
Pushes(q) == q.bg_wnd_fifo # <<>> /\ ~q.sprite_fetch_active
\* Mutant of Discards: all of SCX, not its lower three bits.
DiscardsAll(q) == Pushes(q) /\ q.processed_pixels < scx

Discards(q) == Pushes(q) /\ q.processed_pixels < scx % 8
Draws(q) == Pushes(q) /\ ~Discards(q)

Popped(fifo) == IF fifo = <<>> THEN fifo ELSE Tail(fifo)

Drawn(q) ==
  LET bg == Head(q.bg_wnd_fifo)
      obj == IF q.sprite_fifo = <<>> THEN Blank ELSE Head(q.sprite_fifo)
  IN [x |-> q.framebuffer_x, bg |-> bg, obj |-> obj,
      front |-> obj.opaque /\ ~(obj.behind /\ bg.column % Fifo \in Solid)]

\* fgb_ppu_lcd_push: to the LCD, and to the window where it begins.
Pushed(q) ==
  LET n == [q EXCEPT !.bg_wnd_fifo = Popped(@), !.processed_pixels = @ + 1]
      m == [n EXCEPT !.sprite_fifo = Popped(@), !.framebuffer_x = @ + 1]
  IN IF ~Pushes(q) THEN q
     ELSE IF Discards(q) THEN n
     ELSE IF /\ ~q.reached_window_x
             /\ wnd_enable /\ reached_window_y
             /\ m.framebuffer_x >= wx - 7
     THEN [m EXCEPT !.reached_window_x = TRUE, !.bg_wnd_fetch_step = 0, !.fetch_x = 0,
                    !.bg_wnd_fifo = <<>>]
     ELSE m

\* The end of a line leaves the sprite FIFO as it is.
Finished(q) ==
  [q EXCEPT !.framebuffer_x = 0, !.fetch_x = 0, !.is_first_fetch = TRUE,
            !.processed_pixels = 0, !.bg_wnd_fetch_step = 0,
            !.sprite_fetch_active = FALSE, !.bg_wnd_fifo = <<>>, !.tile = NoTile,
            !.window_line_counter = @ + (IF q.reached_window_x THEN 1 ELSE 0),
            !.sprite_fifo = [i \in DOMAIN @ |-> [@[i] EXCEPT !.own = FALSE, !.sprite = 0]]]

\* A tick in mode DRAW.
DrawTick ==
  /\ mode = "DRAW"
  /\ LET q == Fetched
         n == Pushed(q)
         merges == d.sprite_fetch_active /\ ~q.sprite_fetch_active
     IN /\ IF n.framebuffer_x >= Width
             THEN mode' = "HBLANK" /\ d' = Finished(n)
             ELSE mode' = mode /\ d' = n
        /\ shown' = IF Draws(q) THEN Drawn(q) ELSE Nothing
        /\ line' = [line EXCEPT
             !.ticks = Min({@ + 1, LineLimit + 1}),
             !.merged = IF merges /\ line.steady
                          THEN Append(@, [sprite |-> sprite_buffer[q.sprite_index], at |-> q.framebuffer_x])
                          ELSE @]
  /\ UNCHANGED <<sprite_buffer, settings, reached_window_y>>

-----------------------------------------------------------------------------
(* Between the lines.                                                      *)

\* HBLANK ends with the next line or with the frame.
HblankEnds ==
  /\ mode = "HBLANK"
  /\ mode' = "OAM_SCAN"
  /\ \/ /\ d.window_line_counter < MaxWindowLines
        /\ d' = [d EXCEPT !.reached_window_x = FALSE]
        /\ UNCHANGED reached_window_y
     \/ /\ d' = [d EXCEPT !.reached_window_x = FALSE, !.window_line_counter = 0]
        /\ reached_window_y' = FALSE
  /\ shown' = Nothing
  /\ UNCHANGED <<sprite_buffer, settings, line>>

\* What software wrote to OAM and the registers since the last line, each
\* byte by a fgb_ppu_write or fgb_ppu_write_oam, or by a DMA.
Set(s) ==
  /\ oam' = s.oam
  /\ scx' = s.scx
  /\ wx' = s.wx
  /\ obj_enable' = s.obj_enable
  /\ wnd_enable' = s.wnd_enable

\* fgb_ppu_compare_sprites
Before(o, i, j) == o[i].x < o[j].x \/ (o[i].x = o[j].x /\ i < j)

\* fgb_ppu_do_oam_scan: the first sprites of OAM that are on the line, sorted.
Scanned(o, on) ==
  LET found == {i \in on : Cardinality({j \in on : j < i}) < LineSprites}
      places == 1..Cardinality(found)
  IN CHOOSE b \in [places -> found] : \A m, n \in places : m < n => Before(o, b[m], b[n])

\* The scan finds the sprites on the line, and the line begins; WY is its
\* number or not.  (Ppu has the scan that a DMA prevents.)
ScanEnds ==
  /\ mode = "OAM_SCAN"
  /\ mode' = "DRAW"
  /\ \E s \in Settings :
       /\ Set(s)
       /\ \E on \in SUBSET (DOMAIN s.oam) : sprite_buffer' = Scanned(s.oam, on)
  /\ d' = [d EXCEPT !.sprite_index = 0]
  /\ reached_window_y' \in {reached_window_y, TRUE}
  /\ line' = NewLine(~d.reached_window_x /\ ~d.sprite_fetch_active /\ d.bg_wnd_fetch_step = 0)
  /\ shown' = shown

Changeable == mode = "DRAW" => line.changes < MaxChanges

\* Software switches the LCD off, and a tick sees it.
SwitchOff ==
  /\ mode # "OFF"
  /\ Changeable
  /\ d.window_line_counter < MaxWindowLines
  /\ mode' = "OFF"
  /\ shown' = Nothing
  /\ UNCHANGED <<sprite_buffer, d, settings, reached_window_y, line>>

\* And on again.
SwitchOn ==
  /\ mode = "OFF"
  /\ mode' = "OAM_SCAN"
  /\ d' = [d EXCEPT !.framebuffer_x = 0, !.processed_pixels = 0, !.fetch_x = 0,
                    !.is_first_fetch = TRUE, !.bg_wnd_fifo = <<>>, !.sprite_fifo = <<>>]
  /\ UNCHANGED <<sprite_buffer, settings, reached_window_y, shown, line>>

\* In mid-line: a write to SCX, WX or LCDC, or bytes of a DMA.
Change ==
  /\ mode = "DRAW" /\ Changeable
  /\ \E s \in Inputs :
       \/ scx' = s.scx /\ UNCHANGED <<oam, wx, obj_enable, wnd_enable>>
       \/ wx' = s.wx /\ UNCHANGED <<oam, scx, obj_enable, wnd_enable>>
       \/ /\ obj_enable' = s.obj_enable /\ wnd_enable' = s.wnd_enable
          /\ UNCHANGED <<oam, scx, wx>>
       \/ /\ oam' = s.oam
          /\ UNCHANGED <<scx, wx, obj_enable, wnd_enable>>
  /\ line' = [line EXCEPT !.changes = @ + 1, !.steady = FALSE, !.merged = <<>>]
  /\ UNCHANGED <<mode, sprite_buffer, d, reached_window_y, shown>>

Next == DrawTick \/ HblankEnds \/ ScanEnds \/ SwitchOff \/ SwitchOn \/ Change

\* The console keeps ticking.
Fairness == WF_vars(DrawTick)

Spec == Init /\ [][Next]_vars /\ Fairness

-----------------------------------------------------------------------------
(* Properties.                                                             *)

FifoTypeOK ==
  /\ d.bg_wnd_fifo \in Seq(BgPixel) /\ Len(d.bg_wnd_fifo) <= Fifo
  /\ d.sprite_fifo \in Seq(ObjPixel) /\ Len(d.sprite_fifo) <= Fifo

FetcherTypeOK ==
  /\ mode \in Modes
  /\ sprite_buffer \in Seq(DOMAIN oam) /\ Len(sprite_buffer) <= LineSprites
  /\ FifoTypeOK
  /\ d.bg_wnd_fetch_step \in 0..7 /\ d.sprite_fetch_step \in 0..7
  /\ d.tile \in Tile
  /\ d.sprite_index \in 0..LineSprites
  /\ d.sprite_fetch_active => d.current_sprite \in DOMAIN oam /\ d.sprite_fetch_step < 7
  /\ d.framebuffer_x \in 0..(Width - 1)
  /\ d.window_line_counter \in 0..MaxWindowLines

\* The window begins one pixel late when WX is 7 or less.
WindowStart == IF wnd_enable /\ reached_window_y THEN Max({1, wx - 7}) ELSE Width

\* On a line whose registers stay as they are, pixel after pixel comes from the
\* background at SCX, and from the window from its start on, however often
\* sprites stop and restart the fetch.
BackgroundInOrder ==
  line.steady /\ shown # Nothing =>
    shown.bg = IF shown.x < WindowStart
                 THEN [window |-> FALSE, column |-> (scx + shown.x) % (Fifo * MapWidth)]
                 ELSE [window |-> TRUE, column |-> shown.x - WindowStart]

\* A pixel shows, of the sprites fetched so far, the first by X and then by
\* OAM index that has an opaque pixel there.  What hung over the right edge of
\* the line before is left in the FIFO and covers that, but for the first seven
\* pixels only.
Opaque(i, x) == (x + 8 - oam[i].x) \in oam[i].lo \union oam[i].hi

Winner(x) ==
  LET there == {k \in DOMAIN line.merged :
                  line.merged[k].at <= x /\ Opaque(line.merged[k].sprite, x)}
  IN IF there = {} THEN 0
     ELSE line.merged[CHOOSE k \in there :
            \A m \in there : m = k \/ Before(oam, line.merged[k].sprite, line.merged[m].sprite)].sprite

FirstSpriteWins ==
  line.steady /\ shown # Nothing =>
    IF shown.obj.own
    THEN IF Winner(shown.x) = 0 THEN ~shown.obj.opaque
         ELSE shown.obj.opaque /\ shown.obj.sprite = Winner(shown.x)
    ELSE shown.x < Fifo - 1 /\ (shown.obj.opaque \/ Winner(shown.x) = 0)

\* A sprite is fetched before its first pixel is due, or late by at most one
\* pixel for each sprite before it.
SpritesOnTime ==
  line.steady /\ obj_enable /\ mode = "DRAW" =>
    \A k \in DOMAIN sprite_buffer :
      Max({0, oam[sprite_buffer[k]].x - 8}) + k - 1 < d.framebuffer_x =>
        \E m \in DOMAIN line.merged : /\ line.merged[m].sprite = sprite_buffer[k]
                                      /\ line.merged[m].at <= Max({0, oam[sprite_buffer[k]].x - 8}) + k - 1

\* A line takes 12 ticks for its first fetches, 5 for a sprite fetch that the
\* LCD switch cut off in the frame before, one for each pixel that is drawn or
\* discarded, 6 for the window and 13 for each sprite, and no more: with 160
\* pixels and 10 sprites that is 320, so that HBLANK can make up for it and
\* every line has its 456 ticks.
LineFits == line.ticks <= LineLimit

\* A line ends, or the LCD is switched off in it, whatever is written.
LineEnds == mode = "DRAW" ~> mode # "DRAW"

=============================================================================
