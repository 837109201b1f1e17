--------------------------------- MODULE Menu ---------------------------------
(***************************************************************************)
(* The menu: menu_control of game.c, which main calls for every report of  *)
(* the keyboard until the game is started.  It looks at the first key of   *)
(* the report and remembers it, so that a report that repeats it does      *)
(* nothing.  Choosing a map ors a bit into the map field of game_attr, and *)
(* nothing takes a bit out again.                                          *)
(***************************************************************************)
EXTENDS Integers

VARIABLES
  held,        (* The first key the keyboard would report now.             *)
  acted,       (* menu_control has done something since held is that key:  *)
               (* history.                                                 *)
  last_key,    (* The first key of the last report.                        *)
  menu_state,  (* 0 "start", 1 "map", 2 "settings" are highlighted, or in  *)
               (* the list of maps 3 "U", 4 "I", 5 "C".                    *)
  map,         (* The map field of game_attr.                              *)
  chosen,      (* The maps chosen so far, as bits: history.                *)
  started      (* Bit 0 of game_attr.                                      *)

menu == <<held, acted, last_key, menu_state, map, chosen, started>>

NoKey == 0
Enter == 40
Down == 81
Up == 82
Other == 4  (* Any key that the menu does not know. *)
Key == {NoKey, Enter, Down, Up, Other}

(* menu_state and last_key are static in game.h: game.c, which uses them,   *)
(* has its own, which are zero; what main sets (main.c:183) are others.    *)
MenuInit ==
  /\ held = NoKey /\ acted = FALSE
  /\ last_key = NoKey
  /\ menu_state = 0
  /\ map = 0 /\ chosen = {}
  /\ started = FALSE

(* A key is pressed or released.  This may happen several times between    *)
(* two reports.                                                            *)
ChangeKey ==
  /\ ~started
  /\ held' \in Key \ {held}
  /\ acted' = FALSE
  /\ UNCHANGED <<last_key, menu_state, map, chosen, started>>

(* Where the arrow keys and, in the list of maps and on "map", ENTER lead. *)
Below == [s \in {0, 1, 3, 4} |-> s + 1]
Above == [s \in {1, 2, 4, 5} |-> s - 1]
Bit == [s \in {3, 4, 5} |-> CASE s = 3 -> 1 [] s = 4 -> 2 [] s = 5 -> 4]

(* A faulty variant of Or: the bit is added.                               *)
Added(m, b) == (m + b) % 16

Or(m, b) == IF (m \div b) % 2 = 1 THEN m ELSE m + b

Move(to) ==
  /\ menu_state' = to /\ acted' = TRUE
  /\ UNCHANGED <<map, chosen, started>>

Choose ==
  /\ menu_state \in DOMAIN Bit /\ held = Enter
  /\ map' = Or(map, Bit[menu_state])
  /\ chosen' = chosen \union {Bit[menu_state]}
  /\ menu_state' = 1 /\ acted' = TRUE
  /\ UNCHANGED started

Start ==
  /\ menu_state = 0 /\ held = Enter
  /\ started' = TRUE /\ acted' = TRUE
  /\ UNCHANGED <<menu_state, map, chosen>>

Ignore == UNCHANGED <<acted, menu_state, map, chosen, started>>

React ==
  \/ Start
  \/ Choose
  \/ menu_state = 1 /\ held = Enter /\ Move(3)
  \/ menu_state \in DOMAIN Below /\ held = Down /\ Move(Below[menu_state])
  \/ menu_state \in DOMAIN Above /\ held = Up /\ Move(Above[menu_state])

Known ==
  \/ held = Enter /\ menu_state # 2
  \/ held = Down /\ menu_state \in DOMAIN Below
  \/ held = Up /\ menu_state \in DOMAIN Above

(* A faulty variant of MenuControl: every report is looked at.             *)
MenuControlAlways ==
  /\ ~started
  /\ last_key' = held
  /\ IF Known THEN React ELSE Ignore
  /\ UNCHANGED held

(* A report while the game is not started.                                 *)
MenuControl ==
  /\ ~started
  /\ held # last_key
  /\ last_key' = held
  /\ IF Known THEN React ELSE Ignore
  /\ UNCHANGED held

MenuNext == ChangeKey \/ MenuControl

-----------------------------------------------------------------------------
(* Properties.                                                             *)

MenuTypeOK ==
  /\ held \in Key /\ last_key \in Key /\ acted \in BOOLEAN
  /\ menu_state \in 0 .. 5
  /\ map \in 0 .. 7
  /\ chosen \subseteq {1, 2, 4}
  /\ started \in BOOLEAN

(* As long as the first key of the reports is the same it does one thing,  *)
(* however many reports there are: the ENTER that opens the list of maps   *)
(* does not choose one, and the one that chooses does not start the game.  *)
OnePressOneStep ==
  [][acted /\ acted' => UNCHANGED <<menu_state, map, started>>]_menu
=============================================================================
