--------------------------------- MODULE Args ---------------------------------
(***************************************************************************)
(* The command line: the option table of src/include/benchmark.h, what     *)
(* src/src/myargs.c makes of it for getopt_long, and what                  *)
(* initializeBenchmarking of src/src/benchmark.c makes of an option.       *)
(*                                                                         *)
(* An option given is a record of its form (-letter, --word, --word=), its *)
(* key, and the text behind it, NoArg if none; an integer stands for a     *)
(* text that atoi reads as it.  unsigned int is W bits wide.               *)
(***************************************************************************)
EXTENDS Integers, Sequences, SequencesExt

CONSTANTS
    NoArg,          \* optarg is NULL
    W               \* the bits of an unsigned int

ASSUME WidthAssumption == W \in Nat \ {0} /\ 2^W \in Nat \ {0}

Unsigned(n) == n % 2^W

Option(name, id, type, default) == [name |-> name, id |-> id, type |-> type, default |-> default]

\* The table, in its order.
options == <<
    Option("cooldown", "c", "INTEGER", 0),
    Option("controller", "C", "STRING", "localhost"),
    Option("packet-delay", "d", "INTEGER", 0),
    Option("delay", "D", "INTEGER", 0),
    Option("debug", "x", "FLAG", 0),
    Option("fields", "f", "FLAG", 0),
    Option("help", "h", "NONE", 0),
    Option("connect-delay", "i", "INTEGER", 0),
    Option("connect-group-size", "I", "INTEGER", 1),
    Option("loops", "l", "INTEGER", 16),
    Option("learn-dst-macs", "L", "FLAG", 1),
    Option("ms-per-test", "m", "INTEGER", 1000),
    Option("mac-addresses", "M", "INTEGER", 100000),
    Option("node-master", "n", "STRING", "localhost"),
    Option("nodes", "N", "INTEGER", 1),
    Option("dpid-offset", "O", "INTEGER", 1),
    Option("packets", "p", "INTEGER", 0),
    Option("port", "P", "INTEGER", 6633),
    Option("ranged-test", "r", "FLAG", 0),
    Option("random", "R", "FLAG", 0),
    Option("switches", "s", "INTEGER", 16),
    Option("size", "S", "INTEGER", 0),
    Option("throughput", "t", "NONE", 0),
    Option("warmup", "w", "INTEGER", 1) >>

-----------------------------------------------------------------------------
(* myargs.c *)

\* The position of a name, or 0.
FindArg(name) == SelectInSeq(options, LAMBDA o : o.name = name)

\* argsGetDefaultStr, -Int and -Flag assert what Declared says.
Declared(name, type) == FindArg(name) # 0 /\ options[FindArg(name)].type = type
Default(name)        == options[FindArg(name)].default

\* has_arg of a long option, and the colon behind a letter.
HasArg(o) == CASE o.type = "NONE" -> "no_argument"
               [] o.type = "FLAG" -> "optional_argument"
               [] OTHER           -> "required_argument"
Colon(o)  == o.type \notin {"NONE", "FLAG"}

\* getopt_long: the letter of the option given, or "?", and optarg.  A word that
\* is no argument is passed over.
Getopt(given) ==
    LET letter   == given.form = "letter"
        pos      == SelectInSeq(options, LAMBDA o : given.key = IF letter THEN o.id ELSE o.name)
        o        == options[pos]
        required == IF letter THEN Colon(o) ELSE HasArg(o) = "required_argument"
        refused  == \/ pos = 0
                    \/ required /\ given.arg = NoArg
                    \/ given.form = "equals" /\ HasArg(o) = "no_argument"
    IN
    [c      |-> IF refused THEN "?" ELSE o.id,
     optarg |-> IF ~refused /\ (required \/ given.form = "equals") THEN given.arg ELSE NoArg]

-----------------------------------------------------------------------------
(* initializeBenchmarking *)

\* The field of benchmarkArgs that atoi(optarg) is stored in.
Field == [c |-> "cooldown", d |-> "packetDelay", D |-> "delay", i |-> "connectDelay",
          I |-> "connectGroupSize", l |-> "loopsPerTest", m |-> "msTestLen",
          M |-> "nMacAddresses", N |-> "nNodes", O |-> "dpidOffset", p |-> "nPackets",
          P |-> "controllerPort", s |-> "nSwitches", S |-> "packetSize", w |-> "warmup",
          x |-> "debug"]

\* The defaults, of benchmarkArgs and of the global snmpDestination; an offset of 1
\* is replaced by a random one.
Defaults(random) == [
    controllerHostname |-> Default("controller"),
    nodeMasterHostname |-> Default("node-master"),
    cooldown           |-> Default("cooldown"),
    packetDelay        |-> Default("packet-delay"),
    delay              |-> Default("delay"),
    debug              |-> Default("debug"),
    fields             |-> Default("fields"),
    connectDelay       |-> Default("connect-delay"),
    connectGroupSize   |-> Default("connect-group-size"),
    loopsPerTest       |-> Default("loops"),
    learnDstMacs       |-> Default("learn-dst-macs"),
    msTestLen          |-> Default("ms-per-test"),
    nMacAddresses      |-> Default("mac-addresses"),
    master             |-> 1,
    nNodes             |-> Default("nodes"),
    dpidOffset         |-> IF Default("dpid-offset") = 1 THEN random ELSE Default("dpid-offset"),
    nPackets           |-> Default("packets"),
    controllerPort     |-> Default("port"),
    testRange          |-> Default("ranged-test"),
    random             |-> Default("random"),
    nSwitches          |-> Default("switches"),
    packetSize         |-> Default("size"),
    mode               |-> "latency",
    warmup             |-> Default("warmup"),
    snmpDestination    |-> NoArg]

\* The letters with a case of their own; any other prints the manual.
Handled == DOMAIN Field \cup {"C", "f", "L", "n", "o", "r", "t"}

\* atoi(NULL).
ReadsNull(c, arg) == c = "x" /\ arg = NoArg

\* The switch over the letter.  A node that was once made a slave remains one; the
\* host to sample is known from -C alone (its name is cut to 19 characters).
Set(params, c, arg) ==
    CASE c \in DOMAIN Field -> [params EXCEPT ![Field[c]] = Unsigned(arg)]
      [] c = "C" -> [params EXCEPT !.controllerHostname = arg,
                                   !.snmpDestination = arg]
      [] c = "n" -> [params EXCEPT !.nodeMasterHostname = arg,
                                   !.master = IF arg = "localhost" THEN @ ELSE 0]
      [] c = "L" -> [params EXCEPT !.learnDstMacs =
                                   IF arg \in {NoArg, "true", "on", "1"} THEN 1 ELSE 0]
      [] c = "f" -> [params EXCEPT !.fields = 1]
      [] c = "r" -> [params EXCEPT !.testRange = 1]
      [] c = "o" -> [params EXCEPT !.random = 1]
      [] c = "t" -> [params EXCEPT !.mode = "throughput"]

-----------------------------------------------------------------------------
(* Properties of the table *)

\* The asserts of argsGetDefaultStr, -Int and -Flag hold for every default that
\* initializeBenchmarking asks for (myargs.c:126, 136, 146), and an integer fits
\* the unsigned int it is stored in.
ASSUME DefaultsDeclared ==
    /\ \A name \in {"controller", "node-master"} : Declared(name, "STRING")
    /\ \A name \in {"debug", "fields", "learn-dst-macs", "ranged-test", "random"} :
        Declared(name, "FLAG")
    /\ \A name \in {"cooldown", "packet-delay", "delay", "connect-delay", "connect-group-size",
                    "loops", "ms-per-test", "mac-addresses", "nodes", "dpid-offset", "packets",
                    "port", "switches", "size", "warmup"} :
        Declared(name, "INTEGER") /\ Default(name) \in Nat /\ Default(name) < 2^W

\* Names and letters are unambiguous, and -letter and --word are the same to
\* getopt (argsToShort and argsToLong read one table).
ASSUME OneMeaning ==
    \A a, b \in DOMAIN options :
        LET o == options[a]
            p == options[b]
        IN
        /\ a # b => o.name # p.name /\ o.id # p.id
        /\ \A arg \in {NoArg, "1"} : Getopt([form |-> "letter", key |-> o.id, arg |-> arg])
                                   = Getopt([form |-> "word", key |-> o.name, arg |-> arg])

\* Of the options in the manual only -h prints it, but for -R, whose case is
\* labelled 'o' (benchmark.c:365, benchmark.h:34).
ASSUME ManualHandled ==
    {o \in ToSet(options) : o.id \notin Handled} = {options[FindArg("help")], options[FindArg("random")]}
=============================================================================
