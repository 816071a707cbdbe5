----------------------------- MODULE ChildLaunch -----------------------------
(***************************************************************************)
(* What a child process is started with: the strings of its run section    *)
(* after expandVars (internal/config/expand.go), and its environment       *)
(* (internal/run/env.go and BuildProcessEnvironment).                      *)
(*                                                                         *)
(* A string is a sequence of characters.  The value of a variable in an    *)
(* environment is where it comes from.                                     *)
(***************************************************************************)
EXTENDS Naturals, SequencesExt

CONSTANTS
    Character,     \* what strings are made of
    NameChar,      \* isAlphaNumericUnderscore
    Name,          \* what is written as the name of a variable
    Exported,      \* chaperone's own environment: names to their values
    Variable,      \* the variables of a child's environment
    DefaultCA,     \* defaults.CAEnvVars
    ProxyVar       \* HTTP_PROXY, HTTPS_PROXY, NODE_USE_ENV_PROXY

Escape == "\\"
Dollar == "$"
OpenBrace  == "{"
CloseBrace == "}"
OwnCA  == "CHAPERONE_CA_CERT"

ASSUME CharacterAssumption ==
    /\ {Escape, Dollar, OpenBrace, CloseBrace} \cup NameChar \subseteq Character
    /\ NameChar \cap {Escape, Dollar, OpenBrace, CloseBrace} = {}

ASSUME ExportedAssumption ==
    /\ \A name \in Name \cup DOMAIN Exported : name \in Seq(Character)
    /\ \A name \in DOMAIN Exported : name # <<>> /\ Exported[name] \in Seq(Character)

-----------------------------------------------------------------------------
Failed == [ok |-> FALSE, str |-> <<>>]
Expanded(str) == [ok |-> TRUE, str |-> str]

\* What has been written so far, in front of the rest.
Before(str, rest) == IF rest.ok THEN Expanded(str \o rest.str) ELSE Failed

\* The first place from i on that is past the string or holds one of "stops".
Until(s, i, stops) ==
    CHOOSE j \in i .. Len(s) + 1 :
        /\ j > Len(s) \/ s[j] \in stops
        /\ \A k \in i .. j - 1 : s[k] \notin stops

\* A reference that starts at i: its name and where the string goes on.
Reference(s, i) ==
    IF i < Len(s) /\ s[i + 1] = OpenBrace
      THEN LET end == Until(s, i + 2, {CloseBrace})
           IN [name |-> SubSeq(s, i + 2, end - 1), closed |-> end <= Len(s), next |-> end + 1]
      ELSE LET end == Until(s, i + 1, ToSet(s) \ NameChar)
           IN [name |-> SubSeq(s, i + 1, end - 1), closed |-> TRUE, next |-> end]

\* Mutant of Expand: an undefined variable is taken for an empty one.
ExpandLenient(s) ==
    LET From[i \in 1 .. Len(s) + 1] ==
            CASE i > Len(s) -> Expanded(<<>>)
              [] i < Len(s) /\ s[i] = Escape /\ s[i + 1] = Dollar -> Before(<<Dollar>>, From[i + 2])
              [] i <= Len(s) /\ s[i] = Dollar ->
                   LET ref == Reference(s, i)
                   IN IF ~ref.closed \/ ref.name = <<>> THEN Failed
                      ELSE IF ref.name \in DOMAIN Exported THEN Before(Exported[ref.name], From[ref.next])
                      ELSE From[ref.next]
              [] OTHER -> Before(<<s[i]>>, From[i + 1])
    IN From[1]

\* expandVars: one pass; a name that is empty or unknown is an error.
Expand(s) ==
    LET From[i \in 1 .. Len(s) + 1] ==
            CASE i > Len(s) -> Expanded(<<>>)
              [] i < Len(s) /\ s[i] = Escape /\ s[i + 1] = Dollar -> Before(<<Dollar>>, From[i + 2])
              [] i <= Len(s) /\ s[i] = Dollar ->
                   LET ref == Reference(s, i)
                   IN IF ref.closed /\ ref.name \in DOMAIN Exported
                        THEN Before(Exported[ref.name], From[ref.next])
                        ELSE Failed
              [] OTHER -> Before(<<s[i]>>, From[i + 1])
    IN From[1]

-----------------------------------------------------------------------------
\* The lines of an env file: an assignment to a key, nothing, or neither.
Assignment(key) == [kind |-> "assignment", key |-> key]
Blank == [kind |-> "blank"]
Bad   == [kind |-> "bad"]

Line == {Assignment(key) : key \in Variable} \cup {Blank, Bad}

LoadEnvFile(lines) == {lines[i].key : i \in {j \in DOMAIN lines : lines[j].kind = "assignment"}}
EnvFileFails(lines) == \E i \in DOMAIN lines : lines[i].kind = "bad"

Layer(source, keys) == [key \in keys |-> source]

\* EnvBuilder.Set for every variable of a layer: what was there is replaced.
SetAll(env, layer) ==
    [v \in DOMAIN env \cup DOMAIN layer |-> IF v \in DOMAIN layer THEN layer[v] ELSE env[v]]

\* SetCAEnvVars; nil and an empty list both stand for the defaults.
CAVars(caEnvVars) == {OwnCA} \cup IF caEnvVars = {} THEN DefaultCA ELSE caEnvVars

\* Mutant of BuildProcessEnvironment: the env file is loaded last but one.
BuildWithFileLate(parent, lines, caEnvVars, user) ==
    FoldLeft(SetAll, Layer("parent", parent),
             <<Layer("proxy", ProxyVar), Layer("cert", CAVars(caEnvVars)),
               Layer("file", LoadEnvFile(lines)), Layer("user", user)>>)

\* InheritParent, LoadEnvFile, SetProxyVars, SetCAEnvVars, then the -e flags.
BuildProcessEnvironment(parent, lines, caEnvVars, user) ==
    FoldLeft(SetAll, Layer("parent", parent),
             <<Layer("file", LoadEnvFile(lines)), Layer("proxy", ProxyVar),
               Layer("cert", CAVars(caEnvVars)), Layer("user", user)>>)

-----------------------------------------------------------------------------
(***************************************************************************)
(* A string that may stand in a run section, grown a character at a time,  *)
(* and an environment that a child may be started in.                      *)
(***************************************************************************)
VARIABLES template, launch

Launch == [parent : SUBSET Variable, lines : Seq(Line),
           caEnvVars : SUBSET Variable, user : SUBSET Variable]

LaunchInit == template = <<>> /\ launch \in Launch

Lengthen ==
    /\ \E c \in Character : template' = Append(template, c)
    /\ UNCHANGED launch

LaunchSpec == LaunchInit /\ [][Lengthen]_<<template, launch>>

\* What a reference to the name leaves of the string it stands in.
Resolved(name, rest) == IF name \in DOMAIN Exported THEN Before(Exported[name], rest) ELSE Failed

Escaped(s) == FlattenSeq([i \in DOMAIN s |-> IF s[i] = Dollar THEN <<Escape, Dollar>> ELSE <<s[i]>>])

(***************************************************************************)
(* A string whose dollars are escaped comes out as it was, backslashes and *)
(* all.  A reference in front of any string is replaced by the variable's  *)
(* value, which is not expanded again, and changes nothing of the rest; if *)
(* it is undefined, empty or not closed, all fails whatever follows.  Any  *)
(* other character stays.                                                  *)
(***************************************************************************)
ExpandExact ==
    LET first == IF template = <<>> THEN "" ELSE template[1]
        rest  == Expand(template)
    IN /\ Expand(Escaped(template)) = Expanded(template)
       /\ \A name \in Name :
             /\ CloseBrace \notin ToSet(name) =>
                   /\ Expand(<<Dollar, OpenBrace>> \o name \o <<CloseBrace>> \o template) = Resolved(name, rest)
                   /\ CloseBrace \notin ToSet(template) =>
                         Expand(<<Dollar, OpenBrace>> \o name \o template) = Failed
             /\ ToSet(name) \subseteq NameChar /\ first \notin NameChar \cup {OpenBrace} =>
                   Expand(<<Dollar>> \o name \o template) = Resolved(name, rest)
       /\ \A c \in Character \ {Dollar} :
             (c = Escape => first # Dollar) =>
                Expand(<<c>> \o template) = Before(<<c>>, rest)

\* Who has the last word on each variable.
Precedence(env, parent, file, cert, user) ==
    LET own == DOMAIN env \ user
    IN /\ DOMAIN env = parent \cup file \cup ProxyVar \cup cert \cup user
       /\ \A v \in user : env[v] = "user"
       /\ \A v \in own \cap cert : env[v] = "cert"
       /\ \A v \in (own \cap ProxyVar) \ cert : env[v] = "proxy"
       /\ \A v \in own \ (ProxyVar \cup cert) : env[v] = IF v \in file THEN "file" ELSE "parent"

\* The variables by which chaperone tells a child of its proxy and certificate;
\* lower-case ones, which some clients prefer, are not among them.
Trusted == ProxyVar \cup {OwnCA} \cup DefaultCA

\* Those of them that another chaperone, or anyone, may have set before.
Foreign(env) == {v \in DOMAIN env \cap Trusted : env[v] \in {"parent", "file"}}

(***************************************************************************)
(* Each proxy variable of a child is set by this chaperone or by -e, and   *)
(* so is every variable that ca_env_vars selects, a proxy variable too if  *)
(* it names one.  As long as it selects the usual ones, the child has in   *)
(* these variables nothing of the environment chaperone is started from,   *)
(* nor of the env file.  If it leaves some out, the child gets just those  *)
(* of them as they were, another chaperone's certificate perhaps, beside   *)
(* this one's proxy.                                                       *)
(***************************************************************************)
ChildConsistent ==
    LET file == LoadEnvFile(launch.lines)
        cert == CAVars(launch.caEnvVars)
        env  == BuildProcessEnvironment(launch.parent, launch.lines, launch.caEnvVars, launch.user)
    IN ~EnvFileFails(launch.lines) =>
          /\ Precedence(env, launch.parent, file, cert, launch.user)
          /\ Foreign(env) =
                (DefaultCA \ (cert \cup ProxyVar \cup launch.user)) \cap (launch.parent \cup file)
=============================================================================
