---------------------------- MODULE Configuration ----------------------------
(***************************************************************************)
(* config.rs: the configuration file is read line by line, the first bad   *)
(* line refuses all of it, and route_for_host() looks up the Host of a     *)
(* request or the server name of a ClientHello in what was loaded.         *)
(*                                                                         *)
(* A line is what its text splits into.  A number is a sequence of digits  *)
(* (10 is any other character); a hostname is a sequence of labels, ""    *)
(* for an empty one, so that <<"a", "">> is "a." and "A" is "a" in upper   *)
(* case; "-" is a label with a character or a length that is not allowed.  *)
(* An upstream host is a "name", a "v4" or "v6" address, or "bad"; of      *)
(* https_listen only matters whether it is an address.                     *)
(***************************************************************************)
EXTENDS Naturals, Sequences, SequencesExt, FiniteSetsExt

CONSTANTS
    Files,       \* the configuration files: sequences of lines
    Hosts,       \* the hosts looked up: a name, and a port or NoPort
    NoPort,
    MaxNumber,   \* the largest usize and u64
    MaxPort      \* 65535

Names == {"https_listen", "max_connections", "client_idle", "upstream_timeout"}

Text == Seq(0..10)

Empty == ""

Labels == {"a", "A", "b", "-", Empty}

Lines ==
    [directive : {"blank", "other"}]
    \cup [directive : Names, value : Text]
    \cup [directive : {"tls_identity"}, certificate : STRING, key : STRING,
          separators : Nat]
    \cup [directive : {"route"}, hostname : Seq(Labels), separators : Nat,
          upstream : {"name", "v4", "v6", "bad"}, bracketed : BOOLEAN, port : Text]

Assumptions ==
    /\ {MaxNumber, MaxPort} \subseteq Nat
    /\ Files \subseteq Seq(Lines)
    /\ \A host \in Hosts : host.name \in Seq(Labels)

VARIABLES
    file,       \* the file being read
    line,       \* the line to read next
    settings,   \* the value of each setting, and which lines set one
    routes,     \* hostname and upstream of every route, in order
    pairs,      \* tls_identity_files
    outcome,    \* "reading", "loaded" or "refused"
    asked,      \* the host looked up last
    found       \* its upstream, NoRoute or BadHost

vars == <<file, line, settings, routes, pairs, outcome, asked, found>>

\* Of a setting that no line has set: no good value is empty.
Default == <<>>

NoRoute == <<"no route">>
BadHost == <<"bad host">>

\* No host has been looked up yet.
Nothing == [name |-> <<>>, port |-> NoPort]

Digit == 0..9

\* An https_listen that is an address and a port.
AnAddress == <<1>>

AllDigits(text) == text # <<>> /\ \A i \in 1..Len(text) : text[i] \in Digit

Value(text) ==
    LET ValueOf[n \in 0..Len(text)] ==
            IF n = 0 THEN 0 ELSE 10 * ValueOf[n - 1] + text[n]
    IN ValueOf[Len(text)]

\* parse_max_connections and the two timeouts: a positive integer that fits.
GoodNumber(text) ==
    AllDigits(text) /\ Value(text) <= MaxNumber /\ Value(text) # 0

\* parse_port
GoodPort(text) == AllDigits(text) /\ Value(text) <= MaxPort /\ Value(text) # 0

Lower(label) == IF label = "A" THEN "a" ELSE label

\* trim_end_matches('.')
WithoutFinalDots(name) ==
    SubSeq(name, 1, Max({0} \cup {i \in 1..Len(name) : name[i] # Empty}))

IsValidHostname(name) ==
    name # <<>> /\ \A i \in 1..Len(name) : name[i] \notin {Empty, "-"}

\* normalize_hostname, of a valid one.
Normalized(name) ==
    LET trimmed == WithoutFinalDots(name)
    IN [i \in 1..Len(trimmed) |-> Lower(trimmed[i])]

GoodHostname(name) == IsValidHostname(WithoutFinalDots(name))

\* normalize_request_host: a port has to be a number, but may be zero.
GoodRequestHost(host) ==
    /\ host.port # NoPort => AllDigits(host.port) /\ Value(host.port) <= MaxPort
    /\ GoodHostname(host.name)

Init ==
    /\ file \in Files
    /\ line = 1
    /\ settings = [s \in Names |-> Default]
    /\ routes = <<>> /\ pairs = <<>> /\ outcome = "reading"
    /\ asked = Nothing /\ found = NoRoute

Reading == outcome = "reading" /\ line <= Len(file)

Current == file[line]

\* strip_comment and trim leave nothing.
SkipLine ==
    /\ Reading /\ Current.directive = "blank"
    /\ line' = line + 1
    /\ UNCHANGED <<file, settings, routes, pairs, outcome, asked, found>>

GoodSetting(l) ==
    IF l.directive = "https_listen" THEN l.value = AnAddress
    ELSE GoodNumber(l.value)

\* Mutant: the idle timeout is kept in the place of the upstream timeout.
SetSettingSwapped ==
    /\ Reading /\ Current.directive \in Names
    /\ settings[Current.directive] = Default /\ GoodSetting(Current)
    /\ LET name == IF Current.directive = "client_idle" THEN "upstream_timeout"
                   ELSE Current.directive
       IN settings' = [settings EXCEPT ![name] = Current.value]
    /\ line' = line + 1
    /\ UNCHANGED <<file, routes, pairs, outcome, asked, found>>

\* One of the four settings, which may be set once.
NewSetting ==
    /\ Current.directive \in Names /\ settings[Current.directive] = Default
    /\ GoodSetting(Current)

SetSetting ==
    /\ Reading /\ NewSetting
    /\ settings' = [settings EXCEPT ![Current.directive] = Current.value]
    /\ line' = line + 1
    /\ UNCHANGED <<file, routes, pairs, outcome, asked, found>>

\* tls_identity: two paths, and not the same two as before.
GoodPair(l) == l.certificate # Empty /\ l.key # Empty /\ l.separators = 1

NewPair ==
    /\ Current.directive = "tls_identity" /\ GoodPair(Current)
    /\ ~Contains(pairs, <<Current.certificate, Current.key>>)

AddPair ==
    /\ Reading /\ NewPair
    /\ pairs' = Append(pairs, <<Current.certificate, Current.key>>)
    /\ line' = line + 1
    /\ UNCHANGED <<file, settings, routes, outcome, asked, found>>

\* parse_upstream: an IPv6 address, and nothing else, is in brackets.
GoodUpstream(l) ==
    /\ l.upstream \in IF l.bracketed THEN {"v6"} ELSE {"name", "v4"}
    /\ GoodPort(l.port)

\* One "->", a hostname without a route so far, and an upstream.
GoodRoute(l) ==
    l.separators = 1 /\ GoodHostname(l.hostname) /\ GoodUpstream(l)

NewRoute ==
    /\ Current.directive = "route" /\ GoodRoute(Current)
    /\ \A i \in 1..Len(routes) : routes[i].hostname # Normalized(Current.hostname)

AddRoute ==
    /\ Reading /\ NewRoute
    /\ routes' = Append(routes, [hostname |-> Normalized(Current.hostname),
                                 upstream |-> <<Current.upstream, Value(Current.port)>>])
    /\ line' = line + 1
    /\ UNCHANGED <<file, settings, pairs, outcome, asked, found>>

\* Any other line is an error, and the error names it.
RefuseLine ==
    /\ Reading /\ Current.directive # "blank"
    /\ ~NewSetting /\ ~NewPair /\ ~NewRoute
    /\ outcome' = "refused"
    /\ UNCHANGED <<file, line, settings, routes, pairs, asked, found>>

\* load_with_tls: relative paths are taken from the file's directory.
Resolved(path) == IF path = "relative.pem" THEN "directory/relative.pem" ELSE path

Load ==
    /\ outcome = "reading" /\ line > Len(file)
    /\ outcome' = "loaded"
    /\ pairs' = [i \in 1..Len(pairs) |->
                    <<Resolved(pairs[i][1]), Resolved(pairs[i][2])>>]
    /\ UNCHANGED <<file, line, settings, routes, asked, found>>

\* route_for_host
RouteForHost(host) ==
    LET matching == {i \in 1..Len(routes) :
                        routes[i].hostname = Normalized(host.name)}
    IN IF ~GoodRequestHost(host) THEN BadHost
       ELSE IF matching = {} THEN NoRoute
       ELSE routes[Min(matching)].upstream

LookUp(host) ==
    /\ outcome = "loaded"
    /\ asked' = host /\ found' = RouteForHost(host)
    /\ UNCHANGED <<file, line, settings, routes, pairs, outcome>>

Next ==
    \/ SkipLine \/ SetSetting \/ AddPair \/ AddRoute \/ RefuseLine \/ Load
    \/ \E host \in Hosts : LookUp(host)

Spec == Init /\ [][Next]_vars

-----------------------------------------------------------------------------
(* Properties.                                                             *)

\* Two spellings of one name: they differ in case and final dots only.
SameName(n, k) ==
    LET Lengths(name) == {i \in 0..Len(name) :
                             \A j \in (i + 1)..Len(name) : name[j] = Empty}
    IN \E i \in Lengths(n), j \in Lengths(k) :
          /\ i = j
          /\ \A x \in 1..i : n[x] = k[x] \/ {n[x], k[x]} = {"a", "A"}

\* A text that stands for one of 1..max.
StandsForPositive(text, max) ==
    /\ text # <<>> /\ \A i \in 1..Len(text) : text[i] \in 0..9
    /\ Value(text) \in 1..max

Wellformed(l) ==
    CASE l.directive = "blank" -> TRUE
      [] l.directive = "https_listen" -> l.value = AnAddress
      [] l.directive \in Names \ {"https_listen"} -> StandsForPositive(l.value, MaxNumber)
      [] l.directive = "tls_identity" -> GoodPair(l)
      [] l.directive = "route" ->
            l.separators = 1 /\ StandsForPositive(l.port, MaxPort)
            /\ l.upstream # "bad" /\ (l.bracketed <=> l.upstream = "v6")
            /\ ToSet(WithoutFinalDots(l.hostname)) \in (SUBSET {"a", "A", "b"}) \ {{}}
      [] OTHER -> FALSE

\* Two lines that must not be in one file.
Conflict(l, k) ==
    /\ l.directive = k.directive
    /\ \/ l.directive \in Names
       \/ l.directive = "route" /\ SameName(l.hostname, k.hostname)
       \/ l.directive = "tls_identity" /\ l.certificate = k.certificate
             /\ l.key = k.key

Acceptable(n) ==
    /\ \A i \in 1..n : Wellformed(file[i])
    /\ \A i, j \in 1..n : i # j => ~Conflict(file[i], file[j])

\* A file is loaded exactly when no line is bad and no two are in conflict,
\* and the line the error names is the first one that the file could not
\* have in that place.
RefusesTheFirstBadLine ==
    CASE outcome = "loaded"  -> Acceptable(Len(file))
      [] outcome = "refused" -> Acceptable(line - 1) /\ ~Acceptable(line)
      [] OTHER -> TRUE

\* What is loaded is what the file says: each setting has the value of its
\* line, in whatever place that is, or its default.
LoadsWhatTheFileSays ==
    outcome = "loaded" =>
        \A s \in Names :
            LET lines == {i \in 1..Len(file) : file[i].directive = s}
            IN IF lines = {} THEN settings[s] = Default
               ELSE \A i \in lines : settings[s] = file[i].value

\* A host finds the upstream of the route with its name, in any spelling and
\* with any port, and no other; without such a route it finds none.
RoutesByName ==
    (outcome = "loaded" /\ asked # Nothing) =>
        LET lines == {i \in 1..Len(file) :
                         file[i].directive = "route"
                         /\ SameName(file[i].hostname, asked.name)}
        IN IF found = BadHost THEN ~GoodRequestHost(asked)
           ELSE IF lines = {} THEN found = NoRoute
           ELSE \A i \in lines : found = <<file[i].upstream, Value(file[i].port)>>
=============================================================================
