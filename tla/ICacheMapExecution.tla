------------------------ MODULE ICacheMapExecution --------------------------
(***************************************************************************)
(* The analysis of ICacheDFAMap followed by an execution of the analysed   *)
(* program on a FIFO cache (the hardware is external to the repository).   *)
(***************************************************************************)
EXTENDS ICacheDFAMap

VARIABLES
  at,        \* the node being executed
  fetched,   \* how many of its lines have been fetched
  cache,     \* the cached lines, the newest first
  missed,    \* the misses since the node was entered
  looped     \* a BackwardJump edge was taken

execVars == <<at, fetched, cache, missed, looped>>
allVars  == <<msg, processing, memStateVal, state_map, penalty, phase,
              at, fetched, cache, missed, looped>>

ExecInit ==
  /\ Init
  /\ at = Entry
  /\ fetched = 0
  /\ cache = << >>
  /\ missed = 0
  /\ looped = FALSE

Analyse == Next /\ UNCHANGED execVars

Cached(addr) == \E i \in 1..Len(cache) : cache[i] = addr

(* A FIFO cache of LineNo lines: a hit leaves the order as it is.          *)
Fetch ==
  /\ phase = "done"
  /\ fetched < Len(msg.lines[at])
  /\ LET addr == msg.lines[at][fetched + 1]
     IN  /\ cache' = IF Cached(addr) THEN cache
                     ELSE <<addr>> \o SubSeq(cache, 1, Min({Len(cache), LineNo - 1}))
         /\ missed' = IF Cached(addr) THEN missed ELSE missed + 1
  /\ fetched' = fetched + 1
  /\ UNCHANGED <<vars, at, looped>>

(* Control leaves the node along any of its edges.                         *)
TakeEdge ==
  /\ phase = "done"
  /\ fetched = Len(msg.lines[at])
  /\ \E i \in 1..Len(msg.out[at]) :
       /\ at' = msg.out[at][i].node
       /\ looped' = (looped \/ msg.out[at][i].type = "BackwardJump")
  /\ fetched' = 0
  /\ missed' = 0
  /\ UNCHANGED <<vars, cache>>

ExecNext == Analyse \/ Fetch \/ TakeEdge

ExecSpec == ExecInit /\ [][ExecNext]_allVars

-----------------------------------------------------------------------------
NextFetch == phase = "done" /\ fetched < Len(msg.lines[at])

(* A fetch classified as a hit hits, on every path, loops included.        *)
MustHits ==
  NextFetch /\ Category(at, fetched + 1) = "hit"
    => Cached(msg.lines[at][fetched + 1])

(* A fetch classified as an always miss misses, on every path.             *)
MissesMiss ==
  NextFetch /\ Category(at, fetched + 1) = "miss"
    => ~Cached(msg.lines[at][fetched + 1])

(* The penalty on the out edges of a node pays for all its misses.         *)
PenaltyCoversMisses ==
  phase = "done" => MissCost * missed <= penalty[at]

(* Along forward edges the analysis is exact in one direction: the content *)
(* of the cache is one of the states kept for the program point.           *)
ContentIsKept ==
  phase = "done" /\ ~looped /\ at # Exit =>
    LET states == UpdateAlong(state_map[at], msg.lines[at])[fetched]
    IN  IF states = BlankStates THEN cache = << >> ELSE cache \in states

=============================================================================
