------------------------------ MODULE Operations ------------------------------
(***************************************************************************)
(* What is kept beside the crawl and the searches: the engine's indices and *)
(* their alias, the tool data, the list of sources, the log filter and the *)
(* table of the rate limiter.                                              *)
(* They share no state: a behaviour is one of one of them, the subject, and *)
(* the others stay as they are.                                            *)
(***************************************************************************)
EXTENDS Integers

CONSTANTS Migrates, Writers, Api, Layouts, MaxTasks,
          Places, Readings, Coldest, Hottest, MaxJump, Lags, MaxLag, Skew, MaxLate, Limit, CacheTtl,
          Admins, Comments, Sites, Traps,
          Filters, Malformed, Baseline, OverrideTtl, Period,
          Networks, Callers, Requests, Window, MaxBuckets, SaltTtl, MaxWait, MaxClock

VARIABLES subject,
          indices, configured, tasks, pc, target, answered, acked, installed,
          cache, pass, sample, gauge, told,
          file, tmp, request, known, last, torn,
          current, left, timer, found, age,
          clock, rotated, buckets, call, granted

Ix == INSTANCE Indices
To == INSTANCE ToolData WITH Ttl <- CacheTtl
So == INSTANCE Sources
Lo == INSTANCE LogLevel WITH Ttl <- OverrideTtl
Rl == INSTANCE RateLimit

ASSUME OperationsAssumption ==
  /\ Ix!IndicesAssumption /\ To!ToolDataAssumption /\ So!SourcesAssumption /\ Lo!LevelAssumption
  /\ Rl!RateLimitAssumption

indexVars  == <<indices, configured, tasks, pc, target, answered, acked, installed>>
toolVars   == <<cache, pass, sample, gauge, told>>
sourceVars == <<file, tmp, request, known, last, torn>>
levelVars  == <<current, left, timer, found, age>>
limitVars  == <<clock, rotated, buckets, call, granted>>
vars       == <<subject, indexVars, toolVars, sourceVars, levelVars, limitVars>>

TypeOK == Ix!TypeOK /\ To!TypeOK /\ So!TypeOK /\ Lo!TypeOK /\ Rl!TypeOK

Init ==
  /\ subject \in {"indices", "tools", "sources", "level", "limiter"}
  /\ Ix!Init /\ To!Init /\ So!Init /\ Lo!Init /\ Rl!Init

IndicesStep == subject = "indices" /\ Ix!Next /\ UNCHANGED <<subject, toolVars, sourceVars, levelVars, limitVars>>
ToolStep    == subject = "tools" /\ To!Next /\ UNCHANGED <<subject, indexVars, sourceVars, levelVars, limitVars>>
SourcesStep == subject = "sources" /\ So!Next /\ UNCHANGED <<subject, indexVars, toolVars, levelVars, limitVars>>
LevelStep   == subject = "level" /\ Lo!Next /\ UNCHANGED <<subject, indexVars, toolVars, sourceVars, limitVars>>
LimiterStep == subject = "limiter" /\ Rl!Next /\ UNCHANGED <<subject, indexVars, toolVars, sourceVars, levelVars>>

Next == IndicesStep \/ ToolStep \/ SourcesStep \/ LevelStep \/ LimiterStep
Spec == Init /\ [][Next]_vars

-----------------------------------------------------------------------------
(* Indices!WritesAreRead: what is acknowledged is where the alias leads.    *)
WritesAreRead == Ix!WritesAreRead

(* ToolData!WithheldIsTold: a card withheld for its age is reported.        *)
WithheldIsTold == To!WithheldIsTold

(* Sources!ListIsKept: the file keeps its comments and what was answered.   *)
ListIsKept == So!ListIsKept

(* LogLevel!OverrideEnds: an override of the log filter is not forgotten.   *)
OverrideEnds == Lo!OverrideEnds

(* RateLimit!WindowsHold: what a network is let through in a window's time. *)
WindowsHold == Rl!WindowsHold
=============================================================================
