------------------------------- MODULE Settings -------------------------------
(***************************************************************************)
(* What clients have set and what the session brings back: Options, the way *)
(* of an option to where it takes effect, and TextSession, the way of tasks *)
(* through session files.  A behaviour is of one of them; the variables of  *)
(* the other stay as they begin.                                            *)
(***************************************************************************)
EXTENDS Naturals

\* Those of TextSession and of Options; Unset is what both of them call None.
CONSTANTS Uris, Kind, Offered, Ids, Gids, HashGid, Foreign, Setups, Slots, Turns
CONSTANTS Procs, May, Values, Given, Budget, Nil, Unset
VARIABLES half
VARIABLES setup, up, held, main, side, job, kept, viaText, turns
VARIABLES proto, global, task, drv, limits, file, call, asked, frail, tangled, spent

textVars   == <<setup, up, held, main, side, job, kept, viaText, turns>>
optionVars == <<proto, global, task, drv, limits, file, call, asked, frail, tangled, spent>>

T == INSTANCE TextSession WITH None <- Unset
O == INSTANCE Options WITH None <- Unset
ASSUME TextAssumed == T!TextAssumption
ASSUME OptionsAssumed == O!OptionsAssumption

BothInit ==
    /\ half \in {"options", "text"}
    /\ O!Init /\ T!Init
    /\ half = "text" => proto = "bt"
    /\ half = "options" => setup = CHOOSE s \in Setups : TRUE
BothNext ==
    /\ UNCHANGED half
    /\ \/ half = "options" /\ O!Next /\ UNCHANGED textVars
       \/ half = "text" /\ T!Next /\ UNCHANGED optionVars
BothSpec == BothInit /\ [][BothNext]_<<half, textVars, optionVars>>

\* What clients have set is in effect, and what the daemon reports is (Options).
OptionsInEffect == O!OptionsInEffect

\* What was saved is found again (TextSession).
SavedIsFound == T!SavedIsFound

\* When a migration has said that it is done, it is complete (TextSession).
MigrationComplete == T!MigrationComplete

\* The daemon starts with the text it has written (README.md:280 and README.md:23), which is
\* false of magnets (TextSession).
StartsAgain == T!StartsAgain
==============================================================================
