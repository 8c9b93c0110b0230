----------------------------- MODULE MCFetcher -----------------------------
(***************************************************************************)
(* An instance of Fetcher for TLC: a screen of two tiles and a quarter,    *)
(* and sprites that overlap and hang over both edges.                      *)
(***************************************************************************)
EXTENDS Fetcher

At(x, lo, hi, behind) == [x |-> x, lo |-> lo, hi |-> hi, behind |-> behind]

Left == 0..3
Right == 4..7

Overlapping == <<At(12, Left, {}, FALSE), At(8, Right, {7}, FALSE)>>
SameX == <<At(12, Right, {}, TRUE), At(12, {}, 0..7, FALSE)>>
Costly == <<At(10, Left, {}, FALSE), At(18, Right, {7}, FALSE)>>
AtTheEdges == <<At(3, 0..7, {}, FALSE), At(25, {0}, {3, 6}, FALSE)>>

Setting(o, x, w, obj, wnd) ==
  [oam |-> o, scx |-> x, wx |-> w, obj_enable |-> obj, wnd_enable |-> wnd]

MCSettings == {
  Setting(Overlapping, 3, 10, TRUE, TRUE),
  Setting(SameX, 29, 7, TRUE, TRUE),
  Setting(Costly, 7, 8, TRUE, TRUE),
  Setting(AtTheEdges, 0, 25, TRUE, TRUE)}

MCInputs == {
  Setting(Overlapping, 6, 12, TRUE, FALSE),
  Setting(AtTheEdges, 8, 166, FALSE, TRUE)}
=============================================================================
