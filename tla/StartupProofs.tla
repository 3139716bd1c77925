--------------------------- MODULE StartupProofs ---------------------------
(* The safety properties of Startup for any names, menus and addresses.    *)
EXTENDS Startup, TLAPS

ArgsOK ==
  args \in [interface : Name \cup {None}, collector : Addresses \cup {None},
            filter_ok : BOOLEAN, well_formed : BOOLEAN, info : BOOLEAN]

(* Nothing is asked for that was given, and nobody is asked who is not at  *)
(* a terminal (cli.rs:41-51, 66-72).                                       *)
AsksOnlyWhomItMay ==
  /\ pc = "menu"    => tty /\ args.interface = None
  /\ pc = "address" => tty /\ args.collector = None

(* What is known of Config at each stage.                                  *)
Resolved ==
  /\ pc = "parse" => interface = None /\ collector = None
  /\ pc = "interface" => interface = args.interface
  /\ pc = "menu" => interface = None /\ args.interface = None
  /\ pc \in {"interface", "menu", "collector"} => collector = args.collector

(* Where the interface came from.                                          *)
Origin ==
  interface # None =>
    IF args.interface # None THEN interface = args.interface
    ELSE picked \in 1 .. Len(shown) /\ interface = shown[picked]

IInv == TypeOK /\ ArgsOK /\ Resolved /\ Origin /\ AsksOnlyWhomItMay

LEMMA NoneIsNoName == None \notin Name /\ None \notin Addresses
  BY StartupAssumption DEF None

LEMMA MenuEntry ==
  ASSUME NEW menu \in Menus, NEW n \in 1 .. Len(menu)
  PROVE  menu[n] \in Devices /\ menu[n] # None
<1>1. menu \in Seq(Name)
  BY StartupAssumption
<1>2. menu[n] \in Name
  BY <1>1
<1>3. menu[n] \in Listed(menu)
  BY DEF Listed
<1> QED
  BY <1>2, <1>3, NoneIsNoName DEF Devices

LEMMA InitIInv == Init => IInv
  BY DEF Init, IInv, TypeOK, ArgsOK, Resolved, Origin, AsksOnlyWhomItMay

LEMMA ParseArgsIInv == IInv /\ ParseArgs => IInv'
<1> SUFFICES ASSUME IInv, ParseArgs PROVE IInv'
  OBVIOUS
<1> USE DEF IInv, ArgsOK, Resolved, Origin, AsksOnlyWhomItMay
<1>1. CASE ParseInterface(args.interface, devices) /\ pc' = "interface"
           /\ interface' = args.interface /\ collector' = args.collector
  <2>1. interface' \in Devices \cup {None}
    BY <1>1 DEF ParseInterface, Usable, TypeOK, Devices
  <2>2. code' = code
    BY <1>1 DEF ParseArgs, Go, Exit
  <2>3. TypeOK'
    BY <1>1, <2>1, <2>2 DEF ParseArgs, TypeOK, given
  <2> QED
    BY <1>1, <2>3 DEF ParseArgs, given
<1>2. CASE pc' = "exited" /\ code' \in {0, 2} /\ UNCHANGED <<interface, collector>>
  <2>1. TypeOK'
    BY <1>2 DEF ParseArgs, TypeOK, given, None
  <2> QED
    BY <1>2, <2>1 DEF ParseArgs, given
<1> QED
  BY <1>1, <1>2 DEF ParseArgs, Go, Exit

LEMMA ResolveInterfaceIInv == IInv /\ ResolveInterface => IInv'
<1> SUFFICES ASSUME IInv, ResolveInterface PROVE IInv'
  OBVIOUS
<1> USE DEF IInv, ArgsOK, Resolved, Origin, AsksOnlyWhomItMay, given
<1>1. CASE interface # None /\ Go("collector") /\ UNCHANGED shown
  BY <1>1 DEF ResolveInterface, Go, TypeOK
<1>2. CASE Exit(1) \/ Exit(2)
  <2>1. TypeOK'
    BY <1>2 DEF ResolveInterface, Exit, TypeOK, None
  <2> QED
    BY <1>2, <2>1 DEF ResolveInterface, Exit
<1>3. CASE interface = None /\ MayPrompt /\ devices # <<>> /\ shown' = devices /\ Go("menu")
  <2>1. TypeOK'
    BY <1>3 DEF ResolveInterface, Go, TypeOK
  <2> QED
    BY <1>3, <2>1 DEF ResolveInterface, Go, MayPrompt
<1> QED
  BY <1>1, <1>2, <1>3 DEF ResolveInterface

LEMMA AnswerMenuIInv == ASSUME NEW line \in Typed PROVE IInv /\ AnswerMenu(line) => IInv'
<1> SUFFICES ASSUME IInv, AnswerMenu(line) PROVE IInv'
  OBVIOUS
<1> USE DEF IInv, ArgsOK, Resolved, Origin, AsksOnlyWhomItMay, given
<1>1. CASE line \in 1 .. Len(shown)
  <2>1. shown \in Menus
    <3>1. shown # <<>>
      BY <1>1
    <3> QED
      BY <3>1 DEF TypeOK
  <2>2. shown[line] \in Devices /\ shown[line] # None
    BY <1>1, <2>1, MenuEntry
  <2>3. /\ picked' = line /\ interface' = shown[line] /\ pc' = "collector"
        /\ UNCHANGED <<given, shown, collector, code>>
    BY <1>1 DEF AnswerMenu, Choice, Go
  <2>4. TypeOK'
    BY <1>1, <2>2, <2>3 DEF TypeOK, AnswerMenu
  <2> QED
    BY <1>1, <2>2, <2>3, <2>4 DEF AnswerMenu
<1>2. CASE line \notin 1 .. Len(shown)
  BY <1>2 DEF AnswerMenu, TypeOK
<1> QED
  BY <1>1, <1>2

LEMMA ResolveCollectorIInv == IInv /\ ResolveCollector => IInv'
<1> SUFFICES ASSUME IInv, ResolveCollector PROVE IInv'
  OBVIOUS
<1> USE DEF IInv, ArgsOK, Resolved, Origin, AsksOnlyWhomItMay, given
<1>1. TypeOK'
  BY DEF ResolveCollector, Go, Exit, TypeOK, None
<1> QED
  BY <1>1 DEF ResolveCollector, Go, Exit, MayPrompt

LEMMA AnswerAddressIInv == ASSUME NEW line \in Typed PROVE IInv /\ AnswerAddress(line) => IInv'
  BY DEF IInv, TypeOK, ArgsOK, Resolved, Origin, AsksOnlyWhomItMay, given, AnswerAddress, Go

LEMMA ReadFailsIInv == IInv /\ ReadFails => IInv'
  BY DEF IInv, TypeOK, ArgsOK, Resolved, Origin, AsksOnlyWhomItMay, given, ReadFails, Exit, None

LEMMA LaunchIInv == IInv /\ Launch => IInv'
  BY DEF IInv, TypeOK, ArgsOK, Resolved, Origin, AsksOnlyWhomItMay, given,
         Launch, Connect, Open, Spawn, Go, Exit, None

LEMMA NextIInv == IInv /\ [Next]_vars => IInv'
<1>1. ASSUME IInv, Plug PROVE IInv'
  BY <1>1 DEF IInv, TypeOK, ArgsOK, Resolved, Origin, AsksOnlyWhomItMay, Plug
<1>2. ASSUME IInv, UNCHANGED vars PROVE IInv'
  BY <1>2 DEF IInv, TypeOK, ArgsOK, Resolved, Origin, AsksOnlyWhomItMay, vars
<1> QED
  BY <1>1, <1>2, ParseArgsIInv, ResolveInterfaceIInv, AnswerMenuIInv, ResolveCollectorIInv,
     AnswerAddressIInv, ReadFailsIInv, LaunchIInv DEF Next, Proceed

LEMMA IInvHolds == Spec => []IInv
  BY InitIInv, NextIInv, PTL DEF Spec

(* Types; whatever interface the agent settles on has been in a list.      *)
THEOREM TypeCorrect == Spec => []TypeOK
<1>1. IInv => TypeOK
  BY DEF IInv
<1> QED
  BY <1>1, IInvHolds, PTL

(* The device captured is the one named, or the one chosen as the menu     *)
(* showed it (cli.rs:93-106).                                              *)
THEOREM MenuHonoured == Spec => []MenuIsWhatYouGet
<1>1. IInv => MenuIsWhatYouGet
  BY DEF IInv, Origin, MenuIsWhatYouGet
<1> QED
  BY <1>1, IInvHolds, PTL

(* Only what is missing is asked for, and only at a terminal               *)
(* (cli.rs:41-42, 66-72).                                                  *)
THEOREM PromptsJustified == Spec => []AsksOnlyWhomItMay
<1>1. IInv => AsksOnlyWhomItMay
  BY DEF IInv
<1> QED
  BY <1>1, IInvHolds, PTL

-----------------------------------------------------------------------------
(* An unattended start.                                                    *)

Stages == <<"parse", "interface", "menu", "collector", "address", "connect", "open", "spawn",
            "running", "exited">>
Before(s, t) == \E i, j \in 1 .. 10 : i < j /\ Stages[i] = s /\ Stages[j] = t

(* A start never goes back to an earlier stage; and without a terminal     *)
(* each of its steps leads to a later one, so that there are at most nine  *)
(* of them and no loop of cli.rs is ever entered (cli.rs:66-72, 102-123).  *)
(* This is what UnattendedStartEnds rests on, whatever the scheduling.     *)
AlwaysForward ==
  [][/\ pc' # pc => Before(pc, pc')
     /\ ~tty /\ devices' = devices => Before(pc, pc')]_vars

LEMMA BeforeFacts ==
  /\ Before("parse", "interface") /\ Before("interface", "menu") /\ Before("interface", "collector")
  /\ Before("menu", "collector") /\ Before("collector", "address")
  /\ Before("collector", "connect") /\ Before("address", "connect") /\ Before("connect", "open")
  /\ Before("open", "spawn") /\ Before("spawn", "running")
  /\ \A s \in {"parse", "interface", "menu", "collector", "address", "connect", "open", "spawn"} :
       Before(s, "exited")
<1>1. \A i, j \in 1 .. 10 : i < j => Before(Stages[i], Stages[j])
  BY DEF Before
<1>2. /\ Stages[1] = "parse" /\ Stages[2] = "interface" /\ Stages[3] = "menu"
      /\ Stages[4] = "collector" /\ Stages[5] = "address" /\ Stages[6] = "connect"
      /\ Stages[7] = "open" /\ Stages[8] = "spawn" /\ Stages[9] = "running"
      /\ Stages[10] = "exited"
  BY DEF Stages
<1> HIDE DEF Stages
<1>3. /\ 1 \in 1 .. 10 /\ 2 \in 1 .. 10 /\ 3 \in 1 .. 10 /\ 4 \in 1 .. 10 /\ 5 \in 1 .. 10
      /\ 6 \in 1 .. 10 /\ 7 \in 1 .. 10 /\ 8 \in 1 .. 10 /\ 9 \in 1 .. 10 /\ 10 \in 1 .. 10
  OBVIOUS
<1>4. /\ Before(Stages[1], Stages[2]) /\ Before(Stages[2], Stages[3]) /\ Before(Stages[2], Stages[4])
      /\ Before(Stages[3], Stages[4]) /\ Before(Stages[4], Stages[5])
      /\ Before(Stages[4], Stages[6]) /\ Before(Stages[5], Stages[6]) /\ Before(Stages[6], Stages[7])
      /\ Before(Stages[7], Stages[8]) /\ Before(Stages[8], Stages[9])
  BY <1>1, <1>3
<1>5. \A i \in 1 .. 8 : Before(Stages[i], Stages[10])
  BY <1>1
<1>6. /\ 1 \in 1 .. 8 /\ 2 \in 1 .. 8 /\ 3 \in 1 .. 8 /\ 4 \in 1 .. 8
      /\ 5 \in 1 .. 8 /\ 6 \in 1 .. 8 /\ 7 \in 1 .. 8 /\ 8 \in 1 .. 8
  OBVIOUS
<1> QED BY <1>2, <1>4, <1>5, <1>6

(* The process moves on from stage to stage, and only a prompt, which      *)
(* takes a terminal, may stay where it is.                                 *)
THEOREM StartMovesForward == Spec => AlwaysForward
<1> DEFINE Forward == /\ pc' # pc => Before(pc, pc')
                      /\ ~tty /\ devices' = devices => Before(pc, pc')
<1>1. IInv /\ Next /\ vars' # vars => Forward
  <2> SUFFICES ASSUME IInv, Next, vars' # vars
               PROVE  /\ pc' # pc => Before(pc, pc')
                      /\ ~tty /\ devices' = devices => Before(pc, pc')
    OBVIOUS
  <2> HIDE DEF Forward
  <2>1. CASE ParseArgs
    BY <2>1, BeforeFacts DEF ParseArgs, Go, Exit
  <2>2. CASE ResolveInterface
    BY <2>2, BeforeFacts DEF ResolveInterface, Go, Exit
  <2>3. CASE ResolveCollector
    BY <2>3, BeforeFacts DEF ResolveCollector, Go, Exit
  <2>4. CASE Launch
    BY <2>4, BeforeFacts DEF Launch, Connect, Open, Spawn, Go, Exit
  <2>5. CASE ReadFails
    BY <2>5, BeforeFacts DEF ReadFails, Exit
  <2>6. CASE Plug
    <3>1. UNCHANGED <<pc, args, tty, shown, picked, interface, collector, code>>
      BY <2>6 DEF Plug
    <3>2. devices' # devices
      BY <3>1 DEF vars
    <3> QED BY <3>1, <3>2
  <2>7. ASSUME NEW line \in Typed, AnswerMenu(line)
        PROVE  /\ pc' # pc => Before(pc, pc')
               /\ ~tty /\ devices' = devices => Before(pc, pc')
    <3>1. pc = "menu" /\ tty /\ (pc' = "collector" \/ pc' = pc)
      BY <2>7 DEF AnswerMenu, Go, IInv, AsksOnlyWhomItMay
    <3> QED BY <3>1, BeforeFacts
  <2>8. ASSUME NEW line \in Typed, AnswerAddress(line)
        PROVE  /\ pc' # pc => Before(pc, pc')
               /\ ~tty /\ devices' = devices => Before(pc, pc')
    <3>1. pc = "address" /\ tty /\ (pc' = "connect" \/ pc' = pc)
      BY <2>8 DEF AnswerAddress, Go, IInv, AsksOnlyWhomItMay
    <3> QED BY <3>1, BeforeFacts
  <2> QED BY <2>1, <2>2, <2>3, <2>4, <2>5, <2>6, <2>7, <2>8 DEF Next, Proceed
<1>2. IInv /\ [Next]_vars => [Forward]_vars
  BY <1>1
<1> HIDE DEF Forward
<1>3. Spec => [][Forward]_vars
  BY <1>2, IInvHolds, PTL DEF Spec
<1> QED BY <1>3 DEF AlwaysForward, Forward

(* When the agent runs it runs as it was told: every part of Config was    *)
(* given or asked for, the collector of the command line is kept, and the  *)
(* filter compiles (cli.rs:39-47, main.rs:29-52); and a line clap refuses, *)
(* or one that only asks for help, starts nothing (cli.rs:8-28).           *)
RunsAsTold ==
  pc = "running" =>
    /\ interface # None /\ collector \in Addresses /\ args.filter_ok
    /\ args.well_formed /\ ~args.info
    /\ args.interface # None => interface = args.interface
    /\ args.collector # None => collector = args.collector

(* What of it is known at each stage.                                      *)
Ready ==
  /\ pc \in {"collector", "address", "connect", "open", "spawn", "running"} => interface # None
  /\ pc \in {"connect", "open", "spawn", "running"} => collector # None
  /\ pc \in {"spawn", "running"} => args.filter_ok
  /\ pc \notin {"parse", "exited"} => args.well_formed /\ ~args.info
  /\ args.collector # None /\ collector # None => collector = args.collector

LEMMA ReadyInit == Init => Ready
  BY DEF Init, Ready

LEMMA ReadyNext == IInv /\ Ready /\ [Next]_vars => Ready'
<1> SUFFICES ASSUME IInv, Ready, [Next]_vars PROVE Ready'
  OBVIOUS
<1>1. CASE ParseArgs
  BY <1>1 DEF ParseArgs, Go, Exit, given, Ready
<1>2. CASE ResolveInterface
  BY <1>2 DEF ResolveInterface, Go, Exit, given, Ready
<1>3. CASE ResolveCollector
  BY <1>3 DEF ResolveCollector, Go, Exit, given, Ready
<1>4. CASE Launch
  BY <1>4 DEF Launch, Connect, Open, Spawn, Opens, Go, Exit, given, Ready
<1>5. CASE ReadFails
  BY <1>5 DEF ReadFails, Exit, given, Ready
<1>6. CASE Plug \/ UNCHANGED vars
  BY <1>6 DEF Plug, vars, Ready
<1>7. ASSUME NEW line \in Typed, AnswerMenu(line) PROVE Ready'
  <2>1. UNCHANGED <<args, collector>> /\ pc = "menu"
    BY <1>7 DEF AnswerMenu, given
  <2>2. CASE line \in 1 .. Len(shown)
    <3>1. pc' = "collector" /\ interface' = shown[line]
      BY <1>7, <2>2 DEF AnswerMenu, Go, Choice
    <3>2. shown \in Menus \/ shown = <<>>
      BY DEF IInv, TypeOK
    <3>3. shown \in Menus
      BY <2>2, <3>2
    <3>4. interface' # None
      BY <2>2, <3>1, <3>3, MenuEntry
    <3> QED BY <2>1, <3>1, <3>4 DEF Ready
  <2>3. CASE line \notin 1 .. Len(shown)
    BY <1>7, <2>1, <2>3 DEF AnswerMenu, Ready
  <2> QED BY <2>2, <2>3
<1>8. ASSUME NEW line \in Typed, AnswerAddress(line) PROVE Ready'
  <2>1. UNCHANGED <<args, interface>> /\ pc = "address" /\ args.collector = None
    BY <1>8 DEF AnswerAddress, given, IInv, AsksOnlyWhomItMay
  <2>2. \/ pc' = "connect" /\ collector' \in Addresses
        \/ UNCHANGED <<pc, collector>>
    BY <1>8 DEF AnswerAddress, Go
  <2> QED BY <2>1, <2>2, NoneIsNoName DEF Ready
<1> QED BY <1>1, <1>2, <1>3, <1>4, <1>5, <1>6, <1>7, <1>8 DEF Next, Proceed

(* The two threads start with a whole Config, and with what was asked for. *)
THEOREM StartsAsTold == Spec => []RunsAsTold
<1>1. IInv /\ Ready => RunsAsTold
  BY DEF IInv, TypeOK, Origin, Ready, RunsAsTold
<1>2. Spec => []Ready
  BY ReadyInit, ReadyNext, IInvHolds, PTL DEF Spec
<1> QED BY <1>1, <1>2, IInvHolds, PTL
=============================================================================
