-------------------------- MODULE ICacheExecution ---------------------------
(***************************************************************************)
(* The analysis of ICacheDFA followed by an execution of the analysed      *)
(* program: once the penalties are set, a processor walks a path of the    *)
(* graph and fetches the lines of each node through a real cache.  The     *)
(* properties compare what the analysis promised with what the cache does. *)
(***************************************************************************)
EXTENDS ICacheDFA

(***************************************************************************)
(* The cache (external to the repository): it holds LineNo lines, and is   *)
(* the partial function from the cached lines to their age (LRU) or index  *)
(* (direct mapped); no two lines share a value.                            *)
(***************************************************************************)
IsCache(c) ==
  /\ DOMAIN c \subseteq Line
  /\ c \in [DOMAIN c -> 0..LineNo - 1]
  /\ \A a, b \in DOMAIN c : c[a] = c[b] => a = b

FlushedCache == [a \in {} |-> 0]

LRUAccess(cache, addr) ==
  LET hit == addr \in DOMAIN cache
      kept == IF hit THEN DOMAIN cache
              ELSE {a \in DOMAIN cache : cache[a] + 1 < LineNo}
      ages(a) == ~hit \/ cache[a] < cache[addr]
  IN  [a \in kept \cup {addr} |->
         IF a = addr THEN 0
         ELSE IF ages(a) THEN cache[a] + 1 ELSE cache[a]]

DMAccess(cache, addr) ==
  LET index == BlockAddr[addr] % LineNo
      kept  == {a \in DOMAIN cache : cache[a] # index}
  IN  [a \in kept \cup {addr} |-> IF a = addr THEN index ELSE cache[a]]

Access(cache, addr) ==
  IF rpol = "LRU" THEN LRUAccess(cache, addr) ELSE DMAccess(cache, addr)

-----------------------------------------------------------------------------
VARIABLES
  at,        \* the node being executed
  fetched,   \* how many of its lines have been fetched
  cache,     \* the content of the cache
  missed,    \* the misses since the node was entered
  looped     \* a BackwardJump edge was taken

execVars == <<at, fetched, cache, missed, looped>>
allVars  == <<msg, processing, memState, memStateVal, penalty, phase,
              at, fetched, cache, missed, looped>>

(* The program starts with a flushed cache, as setBlankMemState supposes.  *)
ExecInit ==
  /\ Init
  /\ at = Entry
  /\ fetched = 0
  /\ cache = FlushedCache
  /\ missed = 0
  /\ looped = FALSE

Analyse == Next /\ UNCHANGED execVars

Fetch ==
  /\ phase = "done"
  /\ fetched < Len(msg.lines[at])
  /\ LET addr == msg.lines[at][fetched + 1]
     IN  /\ cache' = Access(cache, addr)
         /\ missed' = IF addr \in DOMAIN cache THEN missed ELSE missed + 1
  /\ fetched' = fetched + 1
  /\ UNCHANGED <<vars, at, looped>>

(* Control leaves the node along any of its edges.                         *)
TakeEdge ==
  /\ phase = "done"
  /\ fetched = Len(msg.lines[at])
  /\ \E i \in 1..Len(msg.out[at]) :
       /\ at' = msg.out[at][i].node
       /\ looped' = (looped \/ msg.out[at][i].type = "BackwardJump")
  /\ fetched' = 0
  /\ missed' = 0
  /\ UNCHANGED <<vars, cache>>

ExecNext == Analyse \/ Fetch \/ TakeEdge

ExecSpec == ExecInit /\ [][ExecNext]_allVars

(* Nothing blocks the analysis; the program may stop where it likes.       *)
FairExecSpec == ExecSpec /\ WF_allVars(Analyse)

-----------------------------------------------------------------------------
ExecTypeOK ==
  /\ TypeOK
  /\ at \in Node
  /\ fetched \in 0..Len(msg.lines[at])
  /\ IsCache(cache)
  /\ missed \in 0..fetched
  /\ looped \in BOOLEAN

(* The promise about the fetch that comes next.                            *)
NextFetch == phase = "done" /\ fetched < Len(msg.lines[at])

(* A fetch classified as a hit hits, on every path, loops included.        *)
MustHits ==
  NextFetch /\ Category(at, fetched + 1) = "hit"
    => msg.lines[at][fetched + 1] \in DOMAIN cache

(* A join loses the line with the address 0, from the may set as well.     *)
NoZeroLine ==
  \A n \in Node : \A i \in 1..Len(msg.lines[n]) : msg.lines[n][i] # ZeroLine

(* A fetch classified as an always miss misses, on every path, if no line  *)
(* has the address 0 and the worklist comes to all nodes.                  *)
MissesMiss ==
  NextFetch /\ NoZeroLine /\ ForwardConnected(msg) /\ Category(at, fetched + 1) = "miss"
    => msg.lines[at][fetched + 1] \notin DOMAIN cache

(* The penalty on the out edges of a node pays for all the misses of the   *)
(* node, on every path: what makes the WCET estimate an upper bound.       *)
PenaltyCoversMisses ==
  phase = "done" => MissCost * missed <= penalty[at]

(* The must set bounds the real cache from below, ages included.           *)
MustBounds(must, c) ==
  \A a \in DOMAIN must : a \in DOMAIN c /\ c[a] <= must[a]

(* The may set bounds the real cache from above, ages included.            *)
MayBounds(may, c) ==
  \A a \in DOMAIN c : a \in DOMAIN may /\ may[a] <= c[a]

AbstractCache == UpdateAlong(memState[at], msg.lines[at])[fetched]

(* As long as no BackwardJump was taken the abstract state of the program  *)
(* point describes the real cache (the exit gets no state).                *)
ForwardMustSound ==
  phase = "done" /\ ~looped /\ at # Exit
    => MustBounds(AbstractCache.must, cache)

ForwardMaySound ==
  phase = "done" /\ ~looped /\ at # Exit /\ NoZeroLine
    => MayBounds(AbstractCache.may, cache)

=============================================================================
