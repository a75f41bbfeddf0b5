------------------------------ MODULE Globals -------------------------------
(***************************************************************************)
(* global.go: the global loggers, and the standard library's logger        *)
(* redirected to a lad Logger.  ReplaceGlobals is one critical section.    *)
(* Redirecting and restoring are a sequence of calls of package log, each  *)
(* atomic; one goroutine makes them, and others may print in between.      *)
(***************************************************************************)
EXTENDS Integers, Sequences

CONSTANTS
  Loggers,        \* loggers passed to ReplaceGlobals and RedirectStdLogAt
  Nop,            \* the initial global logger
  StdLevels,      \* levels levelToFunc knows
  BadLevels,      \* levels it does not
  Flags, Prefix,  \* what the program had set on the standard logger
  MaxDepth        \* bound on the outstanding restore functions

NoFlags == "0"
NoPrefix == ""
Stderr == <<"os.Stderr">>
Sugared(l) == <<"Sugar", l>>

VARIABLES
  globalL, globalS,    \* _globalL, _globalS
  restores,            \* the prev of each outstanding restore function, latest first
  installed,           \* history: the loggers those functions are to remove
  flags, prefix, out,  \* of the standard library's logger
  saved,               \* the flags and prefix held by outstanding restores
  stdpc, cur,          \* the goroutine in redirectStdLogAt or in a restore
  failed               \* history: a RedirectStdLogAt has returned an error

globals == <<globalL, globalS, restores, installed>>
std == <<flags, prefix, out, saved, stdpc, cur, failed>>
globalsVars == <<globals, std>>

NoCall == [logger |-> Nop, level |-> "none", flags |-> NoFlags, prefix |-> NoPrefix]

GlobalsInit ==
  /\ globalL = Nop /\ globalS = Sugared(Nop) /\ restores = << >> /\ installed = << >>
  /\ flags = Flags /\ prefix = Prefix /\ out = Stderr
  /\ saved = << >> /\ stdpc = "idle" /\ cur = NoCall /\ failed = FALSE
-----------------------------------------------------------------------------
Install(l) == globalL' = l /\ globalS' = Sugared(l)

ReplaceGlobals(l) ==
  /\ Len(restores) < MaxDepth
  /\ Install(l)
  /\ restores' = <<globalL>> \o restores
  /\ installed' = <<l>> \o installed
  /\ UNCHANGED std

\* The latest restore function is called: ReplaceGlobals(prev).
RestoreGlobals ==
  /\ restores # << >>
  /\ Install(Head(restores))
  /\ restores' = Tail(restores)
  /\ installed' = Tail(installed)
  /\ UNCHANGED std
-----------------------------------------------------------------------------
At(l, next) == stdpc = l /\ stdpc' = next

\* redirectStdLogAt, one action for each call that it makes of package log.
RedirectStdLogAt(l, lvl) ==
  /\ At("idle", "flags")
  /\ Len(saved) < MaxDepth
  /\ cur' = [logger |-> l, level |-> lvl, flags |-> flags, prefix |-> prefix]
  /\ UNCHANGED <<globals, flags, prefix, out, saved, failed>>

SetFlags ==
  /\ At("flags", "prefix")
  /\ flags' = NoFlags
  /\ UNCHANGED <<globals, prefix, out, saved, cur, failed>>

\* Mutant of SetPrefix: the prefix is left in place.
SetPrefixMissing ==
  /\ At("prefix", "output")
  /\ UNCHANGED <<globals, flags, prefix, out, saved, cur, failed>>

SetPrefix ==
  /\ At("prefix", "output")
  /\ prefix' = NoPrefix
  /\ UNCHANGED <<globals, flags, out, saved, cur, failed>>

\* levelToFunc, and SetOutput or the early return.
SetOutput ==
  /\ At("output", "idle")
  /\ IF cur.level \in StdLevels
     THEN /\ out' = <<cur.logger, cur.level>>
          /\ saved' = <<[flags |-> cur.flags, prefix |-> cur.prefix]>> \o saved
          /\ UNCHANGED failed
     ELSE failed' = TRUE /\ UNCHANGED <<out, saved>>
  /\ cur' = NoCall
  /\ UNCHANGED <<globals, flags, prefix>>

\* The latest restore function: SetFlags, SetPrefix and SetOutput.
RestoreFlags ==
  /\ At("idle", "restorePrefix")
  /\ saved # << >>
  /\ flags' = Head(saved).flags
  /\ UNCHANGED <<globals, prefix, out, saved, cur, failed>>

RestorePrefix ==
  /\ At("restorePrefix", "restoreOutput")
  /\ prefix' = Head(saved).prefix
  /\ UNCHANGED <<globals, flags, out, saved, cur, failed>>

RestoreOutput ==
  /\ At("restoreOutput", "idle")
  /\ out' = Stderr
  /\ saved' = Tail(saved)
  /\ UNCHANGED <<globals, flags, prefix, cur, failed>>

GlobalsNext ==
  \/ \E l \in Loggers : ReplaceGlobals(l)
  \/ RestoreGlobals
  \/ \E l \in Loggers, lvl \in StdLevels \cup BadLevels : RedirectStdLogAt(l, lvl)
  \/ SetFlags \/ SetPrefix \/ SetOutput
  \/ RestoreFlags \/ RestorePrefix \/ RestoreOutput

GlobalsSpec == GlobalsInit /\ [][GlobalsNext]_globalsVars
-----------------------------------------------------------------------------
\* Replacements that are undone in the reverse of their order nest: the global
\* loggers are those of the latest replacement still standing, and the original
\* ones when there is none.  L and S never disagree.
ReplacementsNest ==
  /\ globalL = IF installed = << >> THEN Nop ELSE Head(installed)
  /\ globalS = Sugared(globalL)

\* Redirections nest too, as far as flags and prefix go: they are cleared while a
\* redirection stands and the program's own once all are undone, provided none
\* has failed.  A goroutine that prints while one is set up never sends the lad
\* logger a line with flags or prefix (while one is undone, it may).
RedirectsNest ==
  /\ stdpc = "idle" /\ ~failed =>
       <<flags, prefix>> = IF saved = << >> THEN <<Flags, Prefix>> ELSE <<NoFlags, NoPrefix>>
  /\ out # Stderr /\ stdpc \notin {"restorePrefix", "restoreOutput"} =>
       <<flags, prefix>> = <<NoFlags, NoPrefix>>

\* What the package changes for the whole program, it can give back.
GlobalsNest == ReplacementsNest /\ RedirectsNest

\* "It returns a function to restore the original prefix and flags": whenever the
\* standard logger's settings are not the program's own, there is such a function.
AlwaysRestorable ==
  stdpc = "idle" /\ <<flags, prefix>> # <<Flags, Prefix>> => saved # << >>
=============================================================================
