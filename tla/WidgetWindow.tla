---------------------------- MODULE WidgetWindow ----------------------------
(***************************************************************************)
(* Where the widget's window stands (nimon-widget/src/main.rs): a bar       *)
(* docked somewhere on a monitor and a panel that opens beside it, dragged  *)
(* by the user over monitors of different scales, which come and go.        *)
(*                                                                          *)
(* Lengths are in multiples of a common number of pixels.                   *)
(***************************************************************************)
EXTENDS Integers, Sequences, FiniteSets, FiniteSetsExt

CONSTANTS
  Setups,     \* arrangements of monitors: sequences of areas, the primary first
  StripW,     \* STRIP_W: the bar
  ExpandedW,  \* EXPANDED_W: the bar with the panel
  Margin,     \* MARGIN
  DefaultH,   \* DEFAULT_H
  Heights,    \* heights the interface asks for
  Moves,      \* drags: <<dx, dy>>
  MinH,       \* least height of the window (160)
  LeastH,     \* least work height counted on (80)
  BarH,       \* part of the bar kept on the monitor (40)
  Probe,      \* offset of dock_probe (12)
  Saved       \* saved states the widget may find: [dock, locked]

VARIABLES
  monitors,  \* the arrangement
  geo,       \* Geo: dock, panel, height
  window,    \* rectangle of the window: x, y, w, h
  locked,    \* WidgetState::locked
  unseen,    \* the arrangement changed and no poll came since
  rescaled   \* the window changed scale and is not laid out again yet

windowVars == <<monitors, geo, window, locked, unseen, rescaled>>

-----------------------------------------------------------------------------
(* Monitors: an area is [bounds, work, scale], a rectangle [x, y, w, h] *)

Larger(a, b) == Max({a, b})
Smaller(a, b) == Min({a, b})
Clamp(v, lo, hi) == Larger(lo, Smaller(v, hi))

HasPoint(r, p) == /\ p[1] >= r.x /\ p[1] < r.x + r.w
                  /\ p[2] >= r.y /\ p[2] < r.y + r.h

Distance2(r, p) ==
  LET dx == Larger(Larger(r.x - p[1], 0), p[1] - (r.x + r.w - 1))
      dy == Larger(Larger(r.y - p[2], 0), p[2] - (r.y + r.h - 1))
  IN  dx * dx + dy * dy

DockProbe(dock) == <<dock[1] + Probe, dock[2] + Probe>>
Holding(p) == {i \in DOMAIN monitors : HasPoint(monitors[i].bounds, p)}
OnMonitor(dock) == Holding(DockProbe(dock)) # {}

\* area_nearest: the monitor with the point, else the nearest (the first of equals).
AreaNearest(p) ==
  LET near(i) == Distance2(monitors[i].bounds, p)
  IN  monitors[IF Holding(p) # {} THEN Min(Holding(p))
               ELSE Min({i \in DOMAIN monitors : \A j \in DOMAIN monitors : near(i) <= near(j)})]

\* Mutant: the panel opens, and the bar stands, where they are asked to.
LayoutAsAsked(area, g) ==
  LET s == area.scale
  IN  [win |-> [x |-> IF g.panel THEN g.dock[1] + (StripW - ExpandedW) * s ELSE g.dock[1],
                y |-> g.dock[2], w |-> (IF g.panel THEN ExpandedW ELSE StripW) * s,
                h |-> g.height * s],
       dock |-> g.dock]

\* layout: the bar is clamped onto the monitor, the panel grows leftward from it and
\* is shifted to stay on the same monitor.
Layout(area, g) ==
  LET s == area.scale
      work == area.work
      maxH == Larger(work.h - 2 * Margin * s, LeastH)
      h == Clamp(g.height * s, Smaller(MinH, maxH), maxH)
      dockX == Clamp(g.dock[1], work.x, Larger(work.x + work.w - StripW * s, work.x))
      dockY == Clamp(g.dock[2], work.y, Larger(work.y + work.h - BarH, work.y))
      barY == Larger(Smaller(dockY, work.y + work.h - h), work.y)
      panelX == Clamp(dockX + (StripW - ExpandedW) * s, work.x,
                      Larger(work.x + work.w - ExpandedW * s, work.x))
      panelY == Larger(Smaller(dockY, work.y + work.h - h - Margin * s), work.y)
  IN  IF g.panel
        THEN [win |-> [x |-> panelX, y |-> panelY, w |-> ExpandedW * s, h |-> h],
              dock |-> <<dockX, dockY>>]
        ELSE [win |-> [x |-> dockX, y |-> barY, w |-> StripW * s, h |-> h],
              dock |-> <<dockX, barY>>]

\* apply_geometry: on the monitor that holds the bar.
Apply(g) ==
  LET placed == Layout(AreaNearest(DockProbe(g.dock)), g)
  IN  /\ window' = placed.win
      /\ geo' = [g EXCEPT !.dock = placed.dock]
      /\ rescaled' = FALSE

-----------------------------------------------------------------------------
(* The window *)

\* setup: the saved place if a monitor still holds it, else the right edge of the
\* primary, centred.
WindowInit ==
  /\ monitors \in Setups
  /\ \E file \in Saved :
       LET area == monitors[1]
           s == area.scale
           atRight == <<area.work.x + area.work.w - StripW * s - Margin * s,
                        area.work.y + Larger((area.work.h - DefaultH * s) \div 2, 0)>>
           dock == IF OnMonitor(file.dock) THEN file.dock ELSE atRight
           g == [dock |-> dock, panel |-> FALSE, height |-> DefaultH]
           placed == Layout(AreaNearest(DockProbe(dock)), g)
       IN  /\ locked = file.locked
           /\ geo = [g EXCEPT !.dock = placed.dock] /\ window = placed.win
  /\ unseen = FALSE /\ rescaled = FALSE

\* update_geometry: the interface asks for the bar or the panel, of some height.
UpdateGeometry(panel, height) ==
  /\ Apply([geo EXCEPT !.panel = panel, !.height = height])
  /\ UNCHANGED <<monitors, locked, unseen>>

\* Mutant: a drag is not clamped.
DragTo(area, x, y) == <<x, y>>

\* The place a drag ends: inside the work area of the monitor the bar is on then.
ClampDrag(area, x, y) ==
  LET work == area.work
  IN  <<Clamp(x, Smaller(work.x, work.x + work.w - window.w),
              Larger(work.x + work.w - window.w, work.x)),
        Clamp(y, work.y, Larger(work.y + work.h - window.h, work.y))>>

\* move_by: a drag by logical pixels from where the window is, at the scale of the
\* monitor the bar was on.
MoveBy(move) ==
  /\ ~ locked
  /\ LET current == AreaNearest(DockProbe(geo.dock))
         strip == StripW * current.scale
         x == window.x + move[1] * current.scale
         y == window.y + move[2] * current.scale
         middle == <<x + window.w - strip + strip \div 2, y + Probe>>
         target == IF Holding(middle) = {} THEN current ELSE AreaNearest(middle)
         to == ClampDrag(target, x, y)
     IN  /\ window' = [window EXCEPT !.x = to[1], !.y = to[2]]
         /\ geo' = [geo EXCEPT !.dock = <<to[1] + window.w - strip, to[2]>>]
         /\ rescaled' = (rescaled \/ target.scale # current.scale)
  /\ UNCHANGED <<monitors, locked, unseen>>

\* set_locked, from the menu or the window.  What it and save_state write to
\* widget-state.json matters to the next start, which begins with any saved place.
SetLocked ==
  /\ locked' = ~ locked
  /\ UNCHANGED <<monitors, geo, window, unseen, rescaled>>

\* A monitor is plugged, unplugged or set up differently.  The window stays until
\* something lays it out again.
MonitorsChange ==
  /\ \E setup \in Setups \ {monitors} : monitors' = setup
  /\ UNCHANGED <<geo, window, locked>>
  /\ unseen' = TRUE
  /\ LET scale == AreaNearest(DockProbe(geo.dock)).scale
     IN  rescaled' = (rescaled \/ scale' # scale)

\* reapply_geometry, after the window's scale changed.
ScaleFactorChanged ==
  /\ Apply(geo)
  /\ UNCHANGED <<monitors, locked, unseen>>

\* Mutant: a poll only fetches.
NoWatchdog == UNCHANGED <<geo, window, rescaled>>

\* The end of `poll`: the bar is brought back when no monitor holds it.
Watchdog ==
  IF OnMonitor(geo.dock) THEN UNCHANGED <<geo, window, rescaled>> ELSE Apply(geo)
PollEnds ==
  /\ Watchdog
  /\ unseen' = FALSE
  /\ UNCHANGED <<monitors, locked>>

WindowNext ==
  \/ \E panel \in BOOLEAN, height \in Heights : UpdateGeometry(panel, height)
  \/ \E move \in Moves : MoveBy(move)
  \/ SetLocked \/ MonitorsChange \/ ScaleFactorChanged \/ PollEnds

WindowSpec == WindowInit /\ [][WindowNext]_windowVars

-----------------------------------------------------------------------------
(* Properties *)

\* The user never loses the bar: after any drags, openings and changes of monitors, a
\* monitor holds it, unless the monitors changed since the last poll or the window
\* just changed scale (a drag before it is laid out again takes the new scale for the
\* old width).
BarReachable == unseen \/ rescaled \/ OnMonitor(geo.dock)
=============================================================================
