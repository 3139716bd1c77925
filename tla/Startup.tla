------------------------------ MODULE Startup ------------------------------
(***************************************************************************)
(* From the command line to the two threads: clap's value parsers, the     *)
(* prompts for what is missing (cli.rs), connect, open and spawn           *)
(* (main.rs).  Meanwhile devices come and go; the resolver, the socket,    *)
(* libpcap and standard input may fail.                                    *)
(*                                                                         *)
(* What a user types is a number: a choice from the menu, one that stands  *)
(* for a collector's address, or 0 for anything else and at the end of the *)
(* input.                                                                  *)
(***************************************************************************)
EXTENDS Integers, Sequences

CONSTANTS
  Name,         \* the names --interface may be given
  Menus,        \* what Device::list may return: sequences of names
  Lines,        \* what a user may type
  Addresses     \* the lines that are a collector's address

None == -1

ASSUME StartupAssumption ==
  /\ Menus \subseteq Seq(Name) /\ None \notin Name
  /\ Lines \subseteq Nat /\ Addresses \subseteq Lines

VARIABLES
  pc,          \* "parse", "interface", "menu", "collector", "address", "connect", "open",
               \* "spawn", "running", "exited"
  args,        \* --interface, --collector, None if missing; whether --filter compiles, whether
               \* clap takes the rest of the line (known options, --odid a u32), and whether
               \* --help or --version is on it
  tty,         \* stdin().is_terminal(); if not, the input is empty
  devices,     \* the interfaces there are now
  shown,       \* the menu on the screen
  picked,      \* history: the line of the menu that was chosen, None without a menu
  interface, collector,   \* of Config, None until known
  code         \* exit code, None while running

vars  == <<pc, args, tty, devices, shown, picked, interface, collector, code>>
given == <<args, tty, devices>>

Listed(menu) == {menu[i] : i \in 1 .. Len(menu)}
Usable(name, menu) == name \in Listed(menu)

Init ==
  /\ pc = "parse"
  /\ args \in [interface : Name \cup {None}, collector : Addresses \cup {None},
               filter_ok : BOOLEAN, well_formed : BOOLEAN, info : BOOLEAN]
  /\ tty \in BOOLEAN /\ devices \in Menus
  /\ shown = <<>> /\ picked = None /\ interface = None /\ collector = None
  /\ code = None

Go(next) == pc' = next /\ UNCHANGED code
Exit(c)  == pc' = "exited" /\ code' = c

(* Args::parse: clap runs the value parsers of the arguments that are      *)
(* there and exits with 2 if one fails or the line is no good otherwise,   *)
(* or with 0 once it meets --help or --version.  The mutant takes any      *)
(* name.                                                                   *)
ParseInterface_Unchecked(name, menu) == TRUE
ParseInterface(name, menu) == name = None \/ Usable(name, menu)

ParseArgs ==
  /\ pc = "parse"
  /\ \/ /\ ParseInterface(args.interface, devices)
        /\ args.well_formed /\ ~args.info
        /\ interface' = args.interface /\ collector' = args.collector
        /\ Go("interface")
     \/ /\ args.info
        /\ Exit(0) /\ UNCHANGED <<interface, collector>>
     \/ /\ args.interface # None \/ args.collector # None \/ ~args.well_formed
        /\ Exit(2) /\ UNCHANGED <<interface, collector>>
  /\ UNCHANGED <<given, shown, picked>>

(* require_tty; the mutant prompts whoever is there.                       *)
MayPrompt_Always == TRUE
MayPrompt == tty

(* interface.unwrap_or_else(prompt_interface), up to the menu.             *)
ResolveInterface ==
  /\ pc = "interface"
  /\ \/ interface # None /\ Go("collector") /\ UNCHANGED shown
     \/ interface = None /\ ~MayPrompt /\ Exit(2) /\ UNCHANGED shown
     \/ interface = None /\ MayPrompt /\ Exit(1) /\ UNCHANGED shown     \* the list fails or is empty
     \/ interface = None /\ MayPrompt /\ devices # <<>> /\ shown' = devices /\ Go("menu")
  /\ UNCHANGED <<given, picked, interface, collector>>

Typed == IF tty THEN Lines ELSE {0}

(* devices[n - 1] of the list that was shown; the mutant lists again.      *)
Choice_Relisted(n) == IF n <= Len(devices) THEN devices[n] ELSE shown[n]
Choice(n) == shown[n]

(* The menu's loop: any other line is refused and the question repeated.   *)
AnswerMenu(line) ==
  /\ pc = "menu"
  /\ IF line \in 1 .. Len(shown)
     THEN picked' = line /\ interface' = Choice(line) /\ Go("collector")
     ELSE UNCHANGED <<pc, code, picked, interface>>
  /\ UNCHANGED <<given, shown, collector>>

(* collector.unwrap_or_else(prompt_collector), and its loop, which goes on *)
(* while the address does not resolve.                                     *)
ResolveCollector ==
  /\ pc = "collector"
  /\ \/ collector # None /\ Go("connect")
     \/ collector = None /\ ~MayPrompt /\ Exit(2)
     \/ collector = None /\ MayPrompt /\ Go("address")
  /\ UNCHANGED <<given, shown, picked, interface, collector>>

AnswerAddress(line) ==
  /\ pc = "address"
  /\ \/ line \in Addresses /\ collector' = line /\ Go("connect")
     \/ UNCHANGED <<pc, code, collector>>
  /\ UNCHANGED <<given, shown, picked, interface>>

(* read_line fails.                                                        *)
ReadFails ==
  /\ pc \in {"menu", "address"} /\ Exit(1)
  /\ UNCHANGED <<given, shown, picked, interface, collector>>

(* Exporter::connect, capture::open, the thread: each may fail.  A device  *)
(* that is gone, or a filter that does not compile, cannot be opened.      *)
Opens == Usable(interface, devices) /\ args.filter_ok

Connect == pc = "connect" /\ (Go("open") \/ Exit(1))
Open    == pc = "open" /\ ((Opens /\ Go("spawn")) \/ Exit(1))
Spawn   == pc = "spawn" /\ (Go("running") \/ Exit(1))

Launch == (Connect \/ Open \/ Spawn) /\ UNCHANGED <<given, shown, picked, interface, collector>>

(* Devices come and go.                                                    *)
Plug ==
  /\ devices' \in Menus
  /\ UNCHANGED <<pc, args, tty, shown, picked, interface, collector, code>>

Proceed == ParseArgs \/ ResolveInterface \/ ResolveCollector \/ Launch

Next ==
  \/ Proceed \/ ReadFails \/ Plug
  \/ \E line \in Typed : AnswerMenu(line) \/ AnswerAddress(line)

(* The process goes on by itself, but no user owes it an answer.           *)
Spec == Init /\ [][Next]_vars /\ WF_vars(Proceed)

-----------------------------------------------------------------------------

Devices == UNION {Listed(m) : m \in Menus}

(* Types; an interface, wherever its name came from, has existed.          *)
TypeOK ==
  /\ pc \in {"parse", "interface", "menu", "collector", "address",
             "connect", "open", "spawn", "running", "exited"}
  /\ tty \in BOOLEAN /\ devices \in Menus /\ shown \in Menus \cup {<<>>}
  /\ picked \in Nat \cup {None}
  /\ interface \in Devices \cup {None} /\ collector \in Addresses \cup {None}
  /\ code \in {None, 0, 1, 2} /\ (code # None <=> pc = "exited")

(* The device that is captured is the one whose number was typed, as the   *)
(* menu showed it, also if devices appeared or vanished before the answer; *)
(* and one named on the command line is never replaced (cli.rs:93-106).    *)
MenuIsWhatYouGet ==
  interface # None =>
    interface = IF args.interface # None THEN args.interface ELSE shown[picked]

(* Without a terminal, as under a service manager, a start either ends or  *)
(* gets to work: no prompt can spin on an empty input (cli.rs:66-72).      *)
UnattendedStartEnds == ~tty ~> pc \in {"running", "exited"}
=============================================================================
