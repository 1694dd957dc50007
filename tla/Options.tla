------------------------------ MODULE Options ------------------------------
(***************************************************************************)
(* How the three programs get their configuration from the command line    *)
(* (src/edi2edi.cpp, src/zmq/main.cpp, src/edimcast2edi.cpp) before they   *)
(* start.                                                                  *)
(*                                                                         *)
(* Several destinations are described by one flat list of options -d, -p,  *)
(* -s, -S and -t: an option that the destination under construction has    *)
(* already begins the next one.  The value of an option is its place in    *)
(* that list.  Options with one value each are not kept but for the        *)
(* deframer.                                                               *)
(***************************************************************************)
EXTENDS Integers, Sequences, FiniteSets

CONSTANTS
  DestOptions,   \* options of a destination, Address among them
  Address,       \* -d
  MaxOptions     \* bound: options of destinations

ASSUME OptionsAssumption == Address \in DestOptions /\ MaxOptions \in Nat

VARIABLES
  program,          \* "edi2edi", "zmq2edi" or "edimcast2edi"
  parse,            \* where it is, "options" to "started" or "exited"
  edi_destination,  \* the destination under construction: value by option
  option_set,       \* dest_port_set, source_port_set and so on
  destinations,     \* edi_conf.destinations
  sources,          \* an input is given
  zmq_output,       \* a ZeroMQ output is given
  deframer,         \* of edimcast2edi: "none", "mpe" or "gse"
  given             \* history: options of destinations so far

optionsVars == <<program, parse, edi_destination, option_set, destinations, sources,
                 zmq_output, deframer, given>>

NewDestination == [o \in {} |-> 0]

OptionsInit ==
  /\ program \in {"edi2edi", "zmq2edi", "edimcast2edi"}
  /\ parse = "options"
  /\ edi_destination = NewDestination /\ option_set = {}
  /\ destinations = <<>> /\ sources = FALSE /\ zmq_output = FALSE /\ deframer = "none"
  /\ given = 0

-----------------------------------------------------------------------------
(* The options.                                                            *)

\* Seeded fault: the flag of one option outlives its destination.
AddressFlagOnly == option_set \ {Address}

FlagsCleared == {}

SetOption(d, o) == [k \in DOMAIN d \cup {o} |-> IF k = o THEN given + 1 ELSE d[k]]

AddEdiDestination == destinations' = Append(destinations, edi_destination)

\* parse_destination_args; add_edi_destination throws without an address.
ParseDestinationArgs(o) ==
  /\ parse = "options" /\ program \in {"edi2edi", "zmq2edi"} /\ given < MaxOptions
  /\ given' = given + 1
  /\ \/ /\ o \notin option_set
        /\ edi_destination' = SetOption(edi_destination, o)
        /\ option_set' = option_set \cup {o}
        /\ UNCHANGED <<parse, destinations>>
     \/ /\ o \in option_set /\ Address \in option_set
        /\ AddEdiDestination
        /\ edi_destination' = SetOption(NewDestination, o)
        /\ option_set' = FlagsCleared \cup {o}
        /\ UNCHANGED parse
     \/ /\ o \in option_set /\ Address \notin option_set
        /\ parse' = "exited"
        /\ UNCHANGED <<edi_destination, option_set, destinations>>
  /\ UNCHANGED <<program, sources, zmq_output, deframer>>

\* -c and -F of edi2edi; zmq2edi finds its source behind the options.
AddSource ==
  /\ parse = "options" /\ program \in {"edi2edi", "zmq2edi"} /\ ~sources
  /\ sources' = TRUE
  /\ UNCHANGED <<program, parse, edi_destination, option_set, destinations, zmq_output,
                 deframer, given>>

\* -z of edi2edi, -Z of zmq2edi.
AddZmqOutput ==
  /\ parse = "options" /\ program \in {"edi2edi", "zmq2edi"} /\ ~zmq_output
  /\ zmq_output' = TRUE
  /\ UNCHANGED <<program, parse, edi_destination, option_set, destinations, sources,
                 deframer, given>>

\* -l of edimcast2edi: a TCP server, complete with its port.
AddServer ==
  /\ parse = "options" /\ program = "edimcast2edi" /\ given < MaxOptions
  /\ given' = given + 1
  /\ destinations' = Append(destinations, [k \in {Address} |-> given + 1])
  /\ UNCHANGED <<program, parse, edi_destination, option_set, sources, zmq_output, deframer>>

\* -F and -G of edimcast2edi: the last one counts.
ChooseDeframer(d) ==
  /\ parse = "options" /\ program = "edimcast2edi" /\ deframer # d
  /\ deframer' = d
  /\ UNCHANGED <<program, parse, edi_destination, option_set, destinations, sources,
                 zmq_output, given>>

\* An unknown option, or a value that is not what the option takes.
RefuseOption ==
  /\ parse = "options"
  /\ parse' = "exited"
  /\ UNCHANGED <<program, edi_destination, option_set, destinations, sources, zmq_output,
                 deframer, given>>

-----------------------------------------------------------------------------
(* After the options.  edi2edi runs the startup check first, zmq2edi last. *)

EndOfOptions ==
  /\ parse = "options"
  /\ parse' = CASE program = "edi2edi" -> "check"
                [] program = "zmq2edi" -> "add"
                [] OTHER               -> "verify"
  /\ UNCHANGED <<program, edi_destination, option_set, destinations, sources, zmq_output,
                 deframer, given>>

\* Without the option -C there is no check.
StartupCheck ==
  /\ parse = "check"
  /\ \/ parse' = IF program = "edi2edi" THEN "add" ELSE "started"
     \/ parse' = "exited"
  /\ UNCHANGED <<program, edi_destination, option_set, destinations, sources, zmq_output,
                 deframer, given>>

\* The destination under construction: edi2edi takes it whenever there is one
\* and throws if it has no address, zmq2edi drops it then.
AddLastDestination ==
  /\ parse = "add"
  /\ \/ /\ Address \in option_set
        /\ AddEdiDestination
        /\ edi_destination' = NewDestination /\ option_set' = FlagsCleared
        /\ parse' = "verify"
     \/ /\ Address \notin option_set /\ (program = "zmq2edi" \/ given = 0)
        /\ parse' = "verify"
        /\ UNCHANGED <<edi_destination, option_set, destinations>>
     \/ /\ Address \notin option_set /\ program = "edi2edi" /\ given > 0
        /\ parse' = "exited"
        /\ UNCHANGED <<edi_destination, option_set, destinations>>
  /\ UNCHANGED <<program, sources, zmq_output, deframer, given>>

Configured ==
  /\ program \in {"edi2edi", "zmq2edi"} => sources
  /\ destinations # <<>> \/ zmq_output

VerifyConfiguration ==
  /\ parse = "verify"
  /\ parse' = IF ~Configured THEN "exited"
              ELSE CASE program = "edi2edi" -> "rc"
                     [] program = "zmq2edi" -> "check"
                     [] OTHER               -> "started"
  /\ UNCHANGED <<program, edi_destination, option_set, destinations, sources, zmq_output,
                 deframer, given>>

\* init_rc, when a remote control socket is wanted.
InitRc ==
  /\ parse = "rc"
  /\ parse' \in {"started", "exited"}
  /\ UNCHANGED <<program, edi_destination, option_set, destinations, sources, zmq_output,
                 deframer, given>>

OptionsNext ==
  \/ \E o \in DestOptions : ParseDestinationArgs(o)
  \/ AddSource \/ AddZmqOutput \/ AddServer \/ RefuseOption
  \/ \E d \in {"mpe", "gse"} : ChooseDeframer(d)
  \/ EndOfOptions \/ StartupCheck \/ AddLastDestination \/ VerifyConfiguration \/ InitRc

OptionsSpec == OptionsInit /\ [][OptionsNext]_optionsVars

-----------------------------------------------------------------------------
\* Type invariant of the option parsers.
OptionsTypeOK ==
  /\ program \in {"edi2edi", "zmq2edi", "edimcast2edi"}
  /\ parse \in {"options", "check", "add", "verify", "rc", "started", "exited"}
  /\ option_set \subseteq DestOptions /\ DOMAIN edi_destination \subseteq DestOptions
  /\ \A i \in DOMAIN destinations : DOMAIN destinations[i] \subseteq DestOptions
  /\ deframer \in {"none", "mpe", "gse"} /\ given \in 0 .. MaxOptions

Values(d) == {d[o] : o \in DOMAIN d}

\* The destinations are the options cut into consecutive runs, in order: no
\* option of an earlier destination is lost, overwritten or taken for another,
\* each destination has its address, and a new one begins only with an option
\* that the one before it has.  When the program has started no option is left
\* over, except that zmq2edi forgets a last run without address.
OptionsGrouped ==
  LET all == Append(destinations, edi_destination)
  IN  /\ \A i \in DOMAIN destinations : Address \in DOMAIN destinations[i]
      /\ parse # "exited" =>
           \A v \in 1 .. given :
             Cardinality({i \in DOMAIN all : v \in Values(all[i])}) = 1
      /\ \A i \in DOMAIN destinations : \A v \in Values(all[i]), w \in Values(all[i + 1]) : v < w
      /\ program # "edimcast2edi" =>
           \A i \in DOMAIN destinations :
             DOMAIN all[i + 1] # {} =>
               \E o \in DOMAIN all[i] \cap DOMAIN all[i + 1] :
                 \A w \in Values(all[i + 1]) : all[i + 1][o] <= w
      /\ (parse = "started" /\ program = "edi2edi") => DOMAIN edi_destination = {}
=============================================================================
