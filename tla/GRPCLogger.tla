----------------------------- MODULE GRPCLogger -----------------------------
(***************************************************************************)
(* ladgrpc.Logger: the methods of gRPC's logger interfaces over a          *)
(* SugaredLogger.  The ln methods ask the core whether the level is        *)
(* enabled before they format their arguments, and the delegate asks       *)
(* again; the level, an AtomicLevel of the program, may change in between. *)
(***************************************************************************)
EXTENDS Integers

CONSTANTS
  Thresholds,   \* levels the core may be set to; above 5, it disables every level
  MaxSets       \* bound on the changes of level

ASSUME ThresholdsAssumption == Thresholds \subseteq Int

VARIABLES
  threshold,  \* the core's level
  debug,      \* WithDebug: Print, Printf and Println are at DebugLevel
  gpc,        \* "new", "idle", "ln", "delegate", "done"
  call,       \* the method called: its level and whether it is an ln method
  always, never,   \* the call's level has been enabled, disabled, ever since the call
  wrote,      \* levels of the entries the call wrote
  exited,     \* the process has ended
  sets

grpcVars == <<threshold, debug, gpc, call, always, never, wrote, exited, sets>>

DebugLevel == -1
InfoLevel == 0
WarnLevel == 1
ErrorLevel == 2
FatalLevel == 5

Enabled(lvl) == lvl >= threshold

GRPCInit ==
  /\ threshold = InfoLevel /\ debug = FALSE
  /\ gpc = "new" /\ call = [name |-> "Info", ln |-> FALSE]
  /\ always = TRUE /\ never = TRUE /\ wrote = << >> /\ exited = FALSE /\ sets = 0

\* With the option WithDebug, or without.
NewLogger(d) ==
  /\ gpc = "new"
  /\ debug' = d
  /\ gpc' = "idle"
  /\ UNCHANGED <<threshold, call, always, never, wrote, exited, sets>>

\* The levels of the printers, and of the delegate's methods.
LevelOf(name) ==
  CASE name = "Print" -> IF debug THEN DebugLevel ELSE InfoLevel
    [] name = "Info" -> InfoLevel
    [] name = "Warning" -> WarnLevel
    [] name = "Error" -> ErrorLevel
    [] name = "Fatal" -> FatalLevel

\* Info, Infof and Infoln, and so for the other names.
Call(name, ln) ==
  /\ gpc = "idle"
  /\ call' = [name |-> name, ln |-> ln]
  /\ always' = Enabled(LevelOf(name)) /\ never' = ~Enabled(LevelOf(name))
  /\ wrote' = << >>
  /\ gpc' = IF ln THEN "ln" ELSE "delegate"
  /\ UNCHANGED <<threshold, debug, exited, sets>>

\* Mutant of Println: the level asked about is not the printer's own.
PrintlnAtInfo ==
  /\ gpc = "ln"
  /\ gpc' = IF Enabled(InfoLevel) THEN "delegate" ELSE "done"
  /\ UNCHANGED <<threshold, debug, call, always, never, wrote, exited, sets>>

\* Infoln, Warningln, Errorln, printer.Println.
Println ==
  /\ gpc = "ln"
  /\ gpc' = IF Enabled(LevelOf(call.name)) THEN "delegate" ELSE "done"
  /\ UNCHANGED <<threshold, debug, call, always, never, wrote, exited, sets>>

\* The SugaredLogger's method; Fatal ends the process whether or not it writes.
Delegate ==
  /\ gpc = "delegate"
  /\ wrote' = IF Enabled(LevelOf(call.name)) THEN <<LevelOf(call.name)>> ELSE << >>
  /\ exited' = (call.name = "Fatal")
  /\ gpc' = "done"
  /\ UNCHANGED <<threshold, debug, call, always, never, sets>>

CallReturns ==
  /\ gpc = "done" /\ ~exited
  /\ gpc' = "idle"
  /\ UNCHANGED <<threshold, debug, call, always, never, wrote, exited, sets>>

\* Another goroutine sets the level.
SetThreshold(t) ==
  /\ sets < MaxSets /\ ~exited
  /\ threshold' = t
  /\ sets' = sets + 1
  /\ IF gpc \in {"ln", "delegate"}
     THEN LET on == LevelOf(call.name) >= t
          IN always' = (always /\ on) /\ never' = (never /\ ~on)
     ELSE UNCHANGED <<always, never>>
  /\ UNCHANGED <<debug, gpc, call, wrote, exited>>

GRPCNext ==
  \/ \E name \in {"Print", "Info", "Warning", "Error", "Fatal"}, ln \in BOOLEAN : Call(name, ln)
  \/ (\E d \in BOOLEAN : NewLogger(d)) \/ Println \/ Delegate \/ CallReturns
  \/ \E t \in Thresholds : SetThreshold(t)

GRPCSpec == GRPCInit /\ [][GRPCNext]_grpcVars
-----------------------------------------------------------------------------
\* However the level changes during the call, a method of the gRPC logger writes at most
\* one entry, at its own level: one if the level stays enabled, none if it stays
\* disabled, ln method or not.  A Fatal call ends the process, except that Fatalln
\* returns if it finds the level disabled (printer.Println asks before Fatal does).
OneEntryPerCall ==
  gpc = "done" =>
    /\ wrote \in {<< >>, <<LevelOf(call.name)>>}
    /\ always => wrote # << >>
    /\ never => wrote = << >>
    /\ exited => call.name = "Fatal"
    /\ call.name = "Fatal" /\ ~exited => call.ln /\ ~always /\ wrote = << >>
=============================================================================
