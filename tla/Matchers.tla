------------------------------ MODULE Matchers ------------------------------
(***************************************************************************)
(* How the words of a rule and of a destination are read, what matches     *)
(* what, and where a ruleset sends a destination.                          *)
(* Source: src/nhop/src/rules (matcher, ruleset), cli/explain.rs and the   *)
(* address parsers of proxy/mod.rs and cli/mod.rs.                         *)
(*                                                                         *)
(* A word is a sequence of one-character strings.  The characters are what *)
(* the parsers tell apart: letters of either case, the dot, the star, a    *)
(* blank, the colon and brackets of an IPv6 literal, the slash of a        *)
(* network, and two digits, in which addresses and ports are written.      *)
(***************************************************************************)
EXTENDS Integers, Sequences, SequencesExt

CONSTANTS Bits,       \* digits of an IP literal: 32 or 128 in the code
          PortBits,   \* width of a port: 16 in the code
          Characters  \* those above, and any others

ASSUME WidthAssumption == Bits \in Nat \ {0} /\ PortBits \in Nat \ {0}
ASSUME CharactersAssumption ==
  {"a", "b", "A", "B", ".", "*", " ", ":", "[", "]", "/", "0", "1", "+"} \subseteq Characters

\* What is typed for a host, a destination or the value of a rule.
Words == Seq(Characters)

Digits == {"0", "1"}

\* Reading nothing: the Err or the None of a parser.
Unread == [kind |-> "unread"]

-----------------------------------------------------------------------------
(* The standard library, as the parsers use it *)

Lower(c) == CASE c = "A" -> "a" [] c = "B" -> "b" [] OTHER -> c
Lowered(w) == [i \in DOMAIN w |-> Lower(w[i])]

StripLast(w, c) == IF w # <<>> /\ Last(w) = c THEN Front(w) ELSE w
StripFirst(w, c) == IF w # <<>> /\ Head(w) = c THEN Tail(w) ELSE w

\* The number a row of digits writes.
Number(w) ==
  LET value[i \in 0..Len(w)] ==
        IF i = 0 THEN 0 ELSE 2 * value[i - 1] + (IF w[i] = "1" THEN 1 ELSE 0)
  IN  value[Len(w)]

\* A number, and what is left of it without its last digit, its last two, ...
Halves(number) ==
  LET half[k \in 0..PortBits] == IF k = 0 THEN number ELSE half[k - 1] \div 2
  IN  half

Fits(number) == Halves(number)[PortBits] = 0

\* str::parse::<u16>: digits, a plus sign before them, and no overflow.
ParseU16(w) ==
  LET digits == StripFirst(w, "+") IN
  IF digits = <<>> \/ ~(Range(digits) \subseteq Digits) \/ ~Fits(Number(digits))
  THEN Unread ELSE [kind |-> "port", port |-> Number(digits)]

\* str::parse::<IpAddr>: a row of digits, for IPv6 with a colon in front.
ParseIp(w) ==
  LET digits == StripFirst(w, ":") IN
  IF Len(digits) = Bits /\ Range(digits) \subseteq Digits
  THEN [kind |-> "address", v6 |-> digits # w, digits |-> digits]
  ELSE Unread

\* str::parse::<IpNet>: an address, a slash and how many digits of it count.
ParseIpNet(w) ==
  LET slashes == {i \in DOMAIN w : w[i] = "/"}
      cut == CHOOSE i \in slashes : TRUE
      address == ParseIp(SubSeq(w, 1, cut - 1))
      length == SubSeq(w, cut + 1, Len(w))
  IN  IF \/ Cardinality(slashes) # 1
         \/ address = Unread
         \/ length = <<>> \/ ~(Range(length) \subseteq Digits)
         \/ Number(length) > Bits
      THEN Unread
      ELSE [kind |-> "cidr", v6 |-> address.v6,
            digits |-> SubSeq(address.digits, 1, Number(length))]

InNetwork(network, address) ==
  network.v6 = address.v6 /\ IsPrefix(network.digits, address.digits)

-----------------------------------------------------------------------------
(* Matchers *)

NormalizedHost(host) ==
  LET name == Lowered(StripLast(host, "."))
  IN  [host |-> name, address |-> ParseIp(name)]

ParseSuffix(value) ==
  LET suffix == Lowered(StripLast(value, ".")) IN
  IF suffix = <<>> \/ Head(suffix) = "." \/ {" ", "*"} \cap Range(suffix) # {}
  THEN Unread ELSE [kind |-> "suffix", word |-> suffix]

ParseKeyword(value) ==
  LET keyword == Lowered(value) IN
  IF keyword = <<>> \/ " " \in Range(keyword)
  THEN Unread ELSE [kind |-> "keyword", word |-> keyword]

ParseMatcher(kind, value) ==
  CASE kind = "suffix" -> ParseSuffix(value)
    [] kind = "cidr" -> ParseIpNet(value)
    [] kind = "port" -> ParseU16(value)
    [] kind = "keyword" -> ParseKeyword(value)

\* Fault: a suffix matches wherever a host ends with it.
SuffixMatchesAnywhere(suffix, host) == IsSuffix(suffix, host)

\* strip_suffix, then a dot at the end of what is left.
SuffixMatches(suffix, host) ==
  \/ host = suffix
  \/ /\ IsSuffix(suffix, host)
     /\ LET head == SubSeq(host, 1, Len(host) - Len(suffix))
        IN  head # <<>> /\ Last(head) = "."

Matches(matcher, host, port) ==
  CASE matcher.kind = "suffix" -> SuffixMatches(matcher.word, host.host)
    [] matcher.kind = "keyword" -> \E i \in 0..Len(host.host) :
                                     IsPrefix(matcher.word, SubSeq(host.host, i + 1, Len(host.host)))
    [] matcher.kind = "cidr" -> host.address # Unread /\ InNetwork(matcher, host.address)
    [] matcher.kind = "port" -> matcher.port = port

-----------------------------------------------------------------------------
(* Rulesets *)

\* Ruleset::push refuses a value that cannot be read; a rule's id is its place.
RuleOf(class, kind, value) ==
  [class |-> class, kind |-> kind, value |-> value, matcher |-> ParseMatcher(kind, value)]

Readable(rule) == rule.matcher # Unread

Direct == [decision |-> "direct"]

\* Two passes: the never rules first, then the others; the first match wins.
Decide(rules, host, port) ==
  LET hits == {i \in DOMAIN rules : Matches(rules[i].matcher, NormalizedHost(host), port)}
      nevers == {i \in hits : rules[i].class = "never"}
  IN  CASE nevers # {} -> [decision |-> "never", rule |-> Min(nevers)]
        [] nevers = {} /\ hits # {} -> [decision |-> "upstream", rule |-> Min(hits)]
        [] hits = {} -> Direct

-----------------------------------------------------------------------------
(* Destinations and upstreams, as they are typed and printed *)

\* Destination::from_str: cut at the last colon, the brackets taken off.
ParseDestination(word) ==
  LET colons == {i \in DOMAIN word : word[i] = ":"}
      cut == Max(colons)
      port == ParseU16(SubSeq(word, cut + 1, Len(word)))
      host == StripLast(StripFirst(SubSeq(word, 1, cut - 1), "["), "]")
  IN  IF colons = {} \/ port = Unread \/ host = <<>>
      THEN Unread ELSE [kind |-> "destination", host |-> host, port |-> port.port]

\* A port as digits, without leading zeros.
Decimal(port) ==
  LET half == Halves(port)
      width == CHOOSE n \in 1..PortBits : half[n] = 0 /\ (n = 1 \/ half[n - 1] # 0)
  IN  [i \in 1..width |-> IF half[width - i] % 2 = 1 THEN "1" ELSE "0"]

\* A host with a colon in it is put in brackets.
Dialled(host, port) ==
  (IF ":" \in Range(host) THEN <<"[">> \o host \o <<"]">> ELSE host) \o <<":">> \o Decimal(port)

\* An upstream as written: whether with blanks around it and with its scheme,
\* and the socket its address reads as.  Two are the same by their socket.
ReadableUpstreams(written) ==
  /\ \A i \in DOMAIN written : written[i].socket # "unread"
  /\ \A i, j \in DOMAIN written : written[i].socket = written[j].socket => i = j

SocketsOf(written) == [i \in DOMAIN written |-> written[i].socket]

\* explain::decision_view: the hop is the upstream a dial made now would take,
\* or the destination itself.
DecisionView(rules, upstream, host, port) ==
  LET made == Decide(rules, host, port)
      through == made.decision = "upstream"
  IN  [kind |-> "decision",
       decision |-> made.decision,
       rule |-> IF made = Direct THEN 0 ELSE made.rule,
       class |-> IF made = Direct THEN "none" ELSE rules[made.rule].class,
       via |-> IF through THEN upstream ELSE "itself",
       hop |-> IF through THEN <<>> ELSE Dialled(host, port)]

\* explain::rule_views: every rule, in order, as it was written.
RuleViews(rules) ==
  [i \in DOMAIN rules |-> [index |-> i, class |-> rules[i].class,
                           kind |-> rules[i].kind, value |-> rules[i].value]]
=============================================================================
