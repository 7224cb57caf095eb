------------------------------ MODULE Addresses ------------------------------
(***************************************************************************)
(* IP addresses and socket addresses as text: the parsers and the           *)
(* std::formatter specialisations of                                         *)
(* src/include/iouxx/iouops/network/ip.hpp.                                  *)
(*                                                                           *)
(* A caller types a text, from_string reads it, the value is printed with a  *)
(* format specification and read back.  A text is a sequence of characters;  *)
(* a hexadecimal digit is the number it stands for (upper and lower case are *)
(* one character: from_chars takes both), punctuation a larger number.  A    *)
(* value is what memory holds: an address_v4 four octets, an address_v6 and  *)
(* a port 16-bit numbers in network byte order, so that a byte that is       *)
(* swapped once too often shows.                                             *)
(***************************************************************************)
EXTENDS Integers, Sequences, FiniteSets

CONSTANTS
    LittleEndian,   \* std::endian::native == std::endian::little
    Classes,        \* the classes whose from_string is called
    Tokens,         \* Tokens[k]: the sections and separators the caller types
    OddTokens,      \* OddTokens[k]: those of them a text has few of
    MaxTokens,      \* MaxTokens[k][n + 1] bounds a text with n odd tokens
    Specs           \* format specifications, as sequences of letters

ASSUME EndianAssumption == LittleEndian \in BOOLEAN

Colon == 16
Dot   == 17
Slash == 18
Hash  == 19
Open  == 20
Close == 21
Other == 22         \* a character no address contains

Digits == 0 .. 15

ClassNames == {"address_v4", "address_v6", "port", "socket_v4_info", "socket_v6_info"}

\* Every token is made of these characters, and odd tokens make no text longer.
ASSUME InputAssumption ==
    /\ Classes \subseteq ClassNames
    /\ \A k \in Classes :
         /\ \A token \in Tokens[k] : token \in Seq(0 .. Other)
         /\ MaxTokens[k] \in Seq(Nat) /\ MaxTokens[k] # << >>
         /\ \A i \in DOMAIN MaxTokens[k] : MaxTokens[k][i] <= MaxTokens[k][1]

MaxByte == 255      \* the largest uint8_t and uint16_t
MaxWord == 65535

VARIABLES
    class,      \* the class whose from_string reads the text
    text,       \* the caller's string
    tokens,     \* the number of tokens typed
    odd,        \* how many of them are odd ones
    phase,      \* "typed", "read" or "printed"
    value       \* what from_string returned; Invalid is an error

vars == <<class, text, tokens, odd, phase, value>>

Invalid == << >>

-----------------------------------------------------------------------------
(* Library pieces the parsers are built from. *)

Contains(s, ch) == \E i \in DOMAIN s : s[i] = ch
Last(s) == s[Len(s)]

\* What a loop over s from the left makes of base.
Accumulate(Op(_, _), base, s) ==
    LET upto[n \in 0 .. Len(s)] == IF n = 0 THEN base ELSE Op(upto[n - 1], s[n])
    IN  upto[Len(s)]

\* The number a word of digits stands for.
Number(word, base) == Accumulate(LAMBDA acc, d : acc * base + d, 0, word)

\* std::from_chars over a whole word: every character a digit of the base,
\* at least one of them, and a value the type of the result can hold.
FromChars(word, base, limit) ==
    IF word # << >> /\ (\A i \in DOMAIN word : word[i] < base) /\ Number(word, base) <= limit
    THEN <<Number(word, base)>>
    ELSE Invalid

\* std::views::split by one character, which ends a piece and begins another.
Cut(pieces, c, ch) ==
    IF c = ch
    THEN Append(pieces, << >>)
    ELSE [pieces EXCEPT ![Len(pieces)] = Append(@, c)]

Split(s, ch) == Accumulate(LAMBDA pieces, c : Cut(pieces, c, ch), << << >> >>, s)

\* split by two characters: found from the left, a character used once.
CutPair(pieces, c, ch1, ch2) ==
    LET piece == Last(pieces)
    IN  IF c = ch2 /\ piece # << >> /\ Last(piece) = ch1
        THEN Append([pieces EXCEPT ![Len(pieces)] = SubSeq(piece, 1, Len(piece) - 1)], << >>)
        ELSE [pieces EXCEPT ![Len(pieces)] = Append(piece, c)]

SplitPair(s, ch1, ch2) ==
    Accumulate(LAMBDA pieces, c : CutPair(pieces, c, ch1, ch2), << << >> >>, s)

-----------------------------------------------------------------------------
(* Byte order. *)

byteswap(v) == (v % 256) * 256 + v \div 256

hton_16(host) == IF LittleEndian THEN byteswap(host) ELSE host

\* hton_inplace and hton of a v6raw.
hton(groups) == [i \in DOMAIN groups |-> hton_16(groups[i])]

\* std::bit_cast of two octets of memory into a 16-bit number, and back.
Cast16(hi, lo) == IF LittleEndian THEN hi + 256 * lo ELSE 256 * hi + lo
Octets(v) == IF LittleEndian THEN <<v % 256, v \div 256>> ELSE <<v \div 256, v % 256>>

-----------------------------------------------------------------------------
(* from_string *)

MaxV4Text == 15
MaxV6Text == 45

\* Mutant of V4Part: the part is compared with one past the last byte value.
V4PartWide(sub) ==
    IF Len(sub) > 3 \/ (Len(sub) > 1 /\ Head(sub) = 0)
    THEN Invalid
    ELSE FromChars(sub, 10, 256)

\* One part of a dotted quad: one to three digits, no leading zero, a byte.
V4Part(sub) ==
    IF Len(sub) > 3 \/ (Len(sub) > 1 /\ Head(sub) = 0)
    THEN Invalid
    ELSE FromChars(sub, 10, MaxByte)

\* address_v4::from_string.
V4FromString(s) ==
    LET parts == Split(s, Dot)
    IN  IF /\ s # << >> /\ Len(s) <= MaxV4Text
           /\ Len(parts) = 4
           /\ \A k \in 1 .. 4 : V4Part(parts[k]) # Invalid
        THEN [k \in 1 .. 4 |-> V4Part(parts[k])[1]]
        ELSE Invalid

\* What address_v6::from_string keeps while it reads: the groups so far in
\* local byte order (part_results and part_count) and seen_ipv4; ok is FALSE
\* once it has returned an error.
Start  == [ok |-> TRUE, groups |-> << >>, seen_ipv4 |-> FALSE]
Failed == [ok |-> FALSE, groups |-> << >>, seen_ipv4 |-> FALSE]

\* parse_one_section, and the conditions its two callers check before it.
parse_one_section(st, sub) ==
    LET count == Len(st.groups)
        v4    == V4FromString(sub)
        hex   == FromChars(sub, 16, MaxWord)
    IN  IF ~st.ok \/ st.seen_ipv4 \/ sub = << >>
        THEN Failed
        ELSE IF Contains(sub, Dot)
             THEN IF count > 6 \/ v4 = Invalid
                  THEN Failed
                  ELSE [ok |-> TRUE, seen_ipv4 |-> TRUE,
                        groups |-> st.groups \o <<hton_16(Cast16(v4[1], v4[2])),
                                                  hton_16(Cast16(v4[3], v4[4]))>>]
             ELSE IF count >= 8 \/ Len(sub) > 4 \/ hex = Invalid
                  THEN Failed
                  ELSE [st EXCEPT !.groups = @ \o hex]

\* The groups of one side of "::", read after what st holds.
ReadSide(st, side) ==
    IF side = << >> THEN st ELSE Accumulate(parse_one_section, st, Split(side, Colon))

Zeros(n) == [i \in 1 .. n |-> 0]

\* A text without any section after "::" fills the rest with zeros whatever
\* their number is; a text with some needs room for at least one zero group.
CloseGap(left, both) ==
    IF both = left
    THEN left \o Zeros(8 - Len(left))
    ELSE left \o Zeros(8 - Len(both)) \o SubSeq(both, Len(left) + 1, Len(both))

\* Mutant of RoomForZeros: eight groups and a gap are one too many.
RoomForNoZeros(left, both) == both = left \/ Len(both) <= 8

\* There is room for the zeros "::" stands for.
RoomForZeros(left, both) == both = left \/ Len(both) < 8

\* address_v6::from_string.
V6FromString(s) ==
    LET sides == SplitPair(s, Colon, Colon)
        left  == ReadSide(Start, sides[1])
        both  == ReadSide(left, sides[2])
    IN  IF s = << >> \/ Len(s) > MaxV6Text \/ ~left.ok
        THEN Invalid
        ELSE IF Len(sides) = 1
        THEN IF Len(left.groups) = 8 THEN hton(left.groups) ELSE Invalid
        ELSE IF /\ Len(sides) = 2 /\ ~left.seen_ipv4 /\ both.ok
                /\ RoomForZeros(left.groups, both.groups)
             THEN hton(CloseGap(left.groups, both.groups))
             ELSE Invalid

\* port::from_string.
PortFromString(s) ==
    LET number == FromChars(s, 10, MaxWord)
    IN  IF (Len(s) > 1 /\ Head(s) = 0) \/ number = Invalid
        THEN Invalid
        ELSE hton(number)

\* The two parts of a socket address, once the separator is known.
ReadPair(parts, addr) ==
    IF Len(parts) # 2 \/ addr = Invalid \/ PortFromString(parts[2]) = Invalid
    THEN Invalid
    ELSE <<addr, PortFromString(parts[2])>>

\* socket_v4_info::from_string.
SockV4FromString(s) ==
    LET parts == Split(s, IF Contains(s, Colon) THEN Colon ELSE Slash)
    IN  ReadPair(parts, V4FromString(parts[1]))

\* socket_v6_info::from_string.
SockV6FromString(s) ==
    LET bracketed == Len(SplitPair(s, Close, Colon)) > 1
        inner == IF bracketed THEN Tail(s) ELSE s
        parts == IF bracketed
                 THEN SplitPair(inner, Close, Colon)
                 ELSE Split(inner, IF Contains(s, Slash) THEN Slash ELSE Hash)
    IN  IF bracketed /\ Head(s) # Open
        THEN Invalid
        ELSE ReadPair(parts, V6FromString(parts[1]))

FromString(k, s) ==
    CASE k = "address_v4" -> V4FromString(s)
      [] k = "address_v6" -> V6FromString(s)
      [] k = "port" -> PortFromString(s)
      [] k = "socket_v4_info" -> SockV4FromString(s)
      [] k = "socket_v6_info" -> SockV6FromString(s)

-----------------------------------------------------------------------------
(* from_string_uncheck: the same reading without the checks.  An [[assume]]  *)
(* that does not hold, or std::unreachable, is undefined behaviour.           *)

Undefined == <<-1>>

V4Uncheck(s) ==
    LET parts == Split(s, Dot)
        Part(k) == FromChars(parts[k], 10, MaxByte)
    IN  IF Len(parts) > 4 \/ \E k \in 1 .. Len(parts) : Part(k) = Invalid
        THEN Undefined
        ELSE [k \in 1 .. 4 |-> IF k <= Len(parts) THEN Part(k)[1] ELSE 0]

\* Mutant of SectionOfV4: the groups stay in network byte order.
NetworkOrderSection(v4) == <<Cast16(v4[1], v4[2]), Cast16(v4[3], v4[4])>>

\* The two groups of an embedded IPv4 address, in local byte order.
SectionOfV4(v4) == <<hton_16(Cast16(v4[1], v4[2])), hton_16(Cast16(v4[3], v4[4]))>>

parse_one_section_uncheck(groups, sub) ==
    LET count == Len(groups)
        v4    == V4Uncheck(sub)
        hex   == FromChars(sub, 16, MaxWord)
    IN  IF groups = Undefined \/ count >= 8
        THEN Undefined
        ELSE IF Contains(sub, Dot)
             THEN IF count > 6 \/ v4 = Undefined
                  THEN Undefined
                  ELSE groups \o SectionOfV4(v4)
             ELSE IF hex = Invalid THEN Undefined ELSE groups \o hex

ReadSideUncheck(groups, side) ==
    IF side = << >> THEN groups
    ELSE Accumulate(parse_one_section_uncheck, groups, Split(side, Colon))

V6Uncheck(s) ==
    LET sides == SplitPair(s, Colon, Colon)
        left  == ReadSideUncheck(<< >>, sides[1])
        both  == IF Len(sides) = 1 THEN left ELSE ReadSideUncheck(left, sides[2])
    IN  IF Len(sides) > 2 \/ left = Undefined \/ both = Undefined
        THEN Undefined
        ELSE hton(CloseGap(left, both))

PortUncheck(s) == LET number == FromChars(s, 10, MaxWord)
                  IN  IF number = Invalid THEN Undefined ELSE hton(number)

\* The last part is the port that stays; without one the port is zero.
PairUncheck(parts, addr) ==
    LET port == IF Len(parts) = 1 THEN <<0>> ELSE PortUncheck(Last(parts))
    IN  IF addr = Undefined \/ port = Undefined THEN Undefined ELSE <<addr, port>>

SockV4Uncheck(s) ==
    LET parts == Split(s, IF Contains(s, Slash) THEN Slash ELSE Colon)
    IN  PairUncheck(parts, V4Uncheck(parts[1]))

SockV6Uncheck(s) ==
    LET bracketed == Len(SplitPair(s, Close, Colon)) > 1
        parts == IF bracketed
                 THEN SplitPair(Tail(s), Close, Colon)
                 ELSE Split(s, IF Contains(s, Slash) THEN Slash ELSE Hash)
    IN  IF ~bracketed /\ ~Contains(s, Slash) /\ ~Contains(s, Hash)
        THEN Undefined
        ELSE PairUncheck(parts, V6Uncheck(parts[1]))

FromStringUncheck(k, s) ==
    CASE k = "address_v4" -> V4Uncheck(s)
      [] k = "address_v6" -> V6Uncheck(s)
      [] k = "port" -> PortUncheck(s)
      [] k = "socket_v4_info" -> SockV4Uncheck(s)
      [] k = "socket_v6_info" -> SockV6Uncheck(s)

-----------------------------------------------------------------------------
(* Formatters *)

\* The digits of a number without leading zeros.
Strip(digits) ==
    LET nonzero == {i \in DOMAIN digits : digits[i] # 0} \cup {Len(digits)}
        first == CHOOSE i \in nonzero : \A j \in nonzero : i <= j
    IN  SubSeq(digits, first, Len(digits))

Hex4(v) == <<v \div 4096, (v \div 256) % 16, (v \div 16) % 16, v % 16>>
Decimal(v) == Strip(<<v \div 10000, (v \div 1000) % 10, (v \div 100) % 10,
                      (v \div 10) % 10, v % 10>>)

\* {:x} or {:04x}.
HexWord(v, removed) == IF removed THEN Strip(Hex4(v)) ELSE Hex4(v)

FormatV4(a) ==
    Decimal(a[1]) \o <<Dot>> \o Decimal(a[2]) \o <<Dot>> \o
    Decimal(a[3]) \o <<Dot>> \o Decimal(a[4])

\* Groups i .. j, each followed, or preceded, by a colon.
ColonAfter(local, i, j, removed) ==
    Accumulate(LAMBDA acc, k : acc \o HexWord(local[k], removed) \o <<Colon>>,
               << >>, [k \in 1 .. j - i + 1 |-> i + k - 1])
ColonBefore(local, i, j, removed) ==
    Accumulate(LAMBDA acc, k : acc \o <<Colon>> \o HexWord(local[k], removed),
               << >>, [k \in 1 .. j - i + 1 |-> i + k - 1])

full_ipv6(local, removed) ==
    HexWord(local[1], removed) \o ColonBefore(local, 2, 8, removed)

mixed_full_ipv6(local, removed) == ColonAfter(local, 1, 6, removed)

\* Mutant of Longer: the last of the longest runs wins.
LongerOrEqual(len, best) == len >= best

Longer(len, best) == len > best

\* The first of the longest runs of zero groups among groups 1 .. limit:
\* the loop at the head of compressed_ipv6.
NoRun == [best_start |-> 1, best_len |-> 0, cur_start |-> 1, cur_len |-> 0]

Scan(run, i, local) ==
    LET start == IF run.cur_len = 0 THEN i ELSE run.cur_start
        len   == run.cur_len + 1
    IN  IF local[i] # 0
        THEN [run EXCEPT !.cur_len = 0]
        ELSE IF Longer(len, run.best_len)
             THEN [best_start |-> start, best_len |-> len, cur_start |-> start, cur_len |-> len]
             ELSE [run EXCEPT !.cur_start = start, !.cur_len = len]

BestRun(local, limit) ==
    Accumulate(LAMBDA run, i : Scan(run, i, local), NoRun, [i \in 1 .. limit |-> i])

compressed_ipv6(local, removed, mixed) ==
    LET limit == IF mixed THEN 6 ELSE 8
        best  == BestRun(local, limit)
        next  == best.best_start + best.best_len
    IN  IF best.best_len < 2
        THEN IF mixed THEN mixed_full_ipv6(local, removed) ELSE full_ipv6(local, removed)
        ELSE IF best.best_start = 1 /\ best.best_len = limit
        THEN <<Colon, Colon>>
        ELSE ColonAfter(local, 1, best.best_start - 1, removed)
             \o (IF best.best_start = 1 THEN <<Colon>> ELSE << >>)
             \o ColonBefore(local, next, limit, removed)
             \o (IF next = limit + 1 \/ mixed THEN <<Colon>> ELSE << >>)

\* Mutant of ipv4_part: the groups are converted once more.
ipv4_part_local(a) == FormatV4(Octets(hton_16(a[7])) \o Octets(hton_16(a[8])))

\* The last two groups as memory holds them, printed as an address_v4.
ipv4_part(a) == FormatV4(Octets(a[7]) \o Octets(a[8]))

\* IPv4-mapped or IPv4-compatible, but not ::abcd.
check_mixed(local) ==
    /\ \A i \in 1 .. 5 : local[i] = 0
    /\ local[6] = 65535 \/ (local[6] = 0 /\ local[7] # 0)

\* formatter<address_v6>::parse: the letters seen, and which of their
\* combinations do not throw.
Seen(spec) == IF spec = << >> THEN {"r"} ELSE {spec[i] : i \in DOMAIN spec}
SpecAccepted(spec) ==
    /\ Cardinality(Seen(spec)) = Len(spec) \/ spec = << >>
    /\ "r" \in Seen(spec) => Seen(spec) \cap {"f", "z", "m"} = {}
    /\ ~({"m", "n"} \subseteq Seen(spec))

\* formatter<address_v6>::format and do_format.
FormatV6(a, spec) ==
    LET local   == hton(a)
        seen    == Seen(spec)
        removed == "z" \notin seen
        mixed   == IF "r" \in seen THEN "n" \notin seen /\ check_mixed(local) ELSE "m" \in seen
        groups  == IF "f" \in seen
                   THEN IF mixed THEN mixed_full_ipv6(local, removed) ELSE full_ipv6(local, removed)
                   ELSE compressed_ipv6(local, removed, mixed)
    IN  IF mixed THEN groups \o ipv4_part(a) ELSE groups

FormatPort(p) == Decimal(hton(p)[1])

\* The separators a socket address is printed with: none is the default.
Separators(k) ==
    CASE k = "socket_v4_info" -> {Colon, Slash}
      [] k = "socket_v6_info" -> {Close, Slash, Hash}
      [] OTHER -> {Other}

Format(k, v, sep, spec) ==
    CASE k = "address_v4" -> FormatV4(v)
      [] k = "address_v6" -> FormatV6(v, spec)
      [] k = "port" -> FormatPort(v)
      [] k = "socket_v4_info" -> FormatV4(v[1]) \o <<sep>> \o FormatPort(v[2])
      [] k = "socket_v6_info" ->
            IF sep = Close
            THEN <<Open>> \o FormatV6(v[1], spec) \o <<Close, Colon>> \o FormatPort(v[2])
            ELSE FormatV6(v[1], spec) \o <<sep>> \o FormatPort(v[2])

\* address_v6::is_ipv4_mapped and to_ipv4_mapped.
is_ipv4_mapped(a) == (\A i \in 1 .. 5 : a[i] = 0) /\ a[6] = 65535

\* Mutant of to_ipv4_mapped: the octets of a group change places.
to_ipv4_mapped_local(a) == Octets(hton_16(a[7])) \o Octets(hton_16(a[8]))

to_ipv4_mapped(a) == Octets(a[7]) \o Octets(a[8])

-----------------------------------------------------------------------------
(* The caller. *)

Init ==
    /\ class \in Classes
    /\ text = << >> /\ tokens = 0 /\ odd = 0
    /\ phase = "typed"
    /\ value = Invalid

\* A section is typed whole and "::" is a token of its own: a digit never
\* follows a digit, nor a colon a colon.
Type(token) ==
    LET odds == IF token \in OddTokens[class] THEN odd + 1 ELSE odd
    IN  /\ phase = "typed"
        /\ odds < Len(MaxTokens[class])
        /\ tokens < MaxTokens[class][odds + 1]
        /\ text # << >> =>
             /\ Head(token) \in Digits => Last(text) \notin Digits
             /\ Head(token) = Colon => Last(text) # Colon
        /\ text' = text \o token
        /\ tokens' = tokens + 1
        /\ odd' = odds
        /\ UNCHANGED <<class, phase, value>>

\* from_string.
Read ==
    /\ phase = "typed"
    /\ phase' = "read"
    /\ value' = FromString(class, text)
    /\ UNCHANGED <<class, text, tokens, odd>>

\* std::format; to_string is the one with the empty specification.
Show(sep, spec) ==
    /\ phase = "read" /\ value # Invalid
    /\ sep \in Separators(class)
    /\ SpecAccepted(spec)
    /\ phase' = "printed"
    /\ text' = Format(class, value, sep, spec)
    /\ tokens' = 0 /\ odd' = 0
    /\ UNCHANGED <<class, value>>

Next ==
    \/ \E token \in Tokens[class] : Type(token)
    \/ Read
    \/ \E sep \in Separators(class), spec \in Specs : Show(sep, spec)

Spec == Init /\ [][Next]_vars

-----------------------------------------------------------------------------
(* What the texts mean, after RFC 4291 and without a parser. *)

\* The octets one section stands for; a dotted quad may only be the last.
SectionMeaning(word, last) ==
    IF Contains(word, Dot)
    THEN {o \in {V4FromString(word)} : last /\ o # Invalid}
    ELSE IF Len(word) \in 1 .. 4 /\ FromChars(word, 16, MaxWord) # Invalid
         THEN LET n == FromChars(word, 16, MaxWord)[1] IN {<<n \div 256, n % 256>>}
         ELSE {}

\* The octets the sections of one side of a gap stand for: two for each, and
\* what the last of them is worth.
SideMeaning(side, last) ==
    LET words == Split(side, Colon)
        n     == Len(words)
        Of(k) == SectionMeaning(words[k], last /\ k = n)
        Octet(k, i) == (CHOOSE o \in Of(k) : TRUE)[i]
    IN  IF side = << >> THEN {<< >>}
        ELSE IF \E k \in 1 .. n : Of(k) = {} THEN {}
        ELSE {[j \in 1 .. 2 * (n - 1) + (IF Contains(words[n], Dot) THEN 4 ELSE 2) |->
                  IF j <= 2 * (n - 1) THEN Octet((j + 1) \div 2, 2 - (j % 2))
                                      ELSE Octet(n, j - 2 * (n - 1))]}

\* There is room for a gap of one group at least between l and r.
GapFits(l, r) == Len(l) + Len(r) <= 14

\* Where a text has two colons.
DoubleColons(s) == {i \in 1 .. Len(s) - 1 : s[i] = Colon /\ s[i + 1] = Colon}

\* Every address a text stands for, as 16 octets.
V6Meaning(s) ==
    LET Around(i) == SideMeaning(SubSeq(s, 1, i - 1), FALSE)
                     \X SideMeaning(SubSeq(s, i + 2, Len(s)), TRUE)
    IN  {o \in SideMeaning(s, TRUE) : Len(o) = 16}
        \cup UNION {{sides[1] \o Zeros(16 - Len(sides[1]) - Len(sides[2])) \o sides[2] :
                        sides \in {x \in Around(i) : GapFits(x[1], x[2])}} : i \in DoubleColons(s)}

\* Eight groups with "::" after them: two colons that stand for nothing.
GapOfNone(s) ==
    \E i \in DoubleColons(s) :
        i + 1 = Len(s) /\ \E o \in SideMeaning(SubSeq(s, 1, i - 1), FALSE) : Len(o) = 16

\* The octets of an address_v6 in memory.
Memory(a) == [k \in 1 .. 16 |-> Octets(a[(k + 1) \div 2])[2 - (k % 2)]]

\* How many groups the text spells on a side, and where its gap is.
SectionsOf(side) == IF side = << >> THEN 0 ELSE Len(Split(side, Colon))
GapStart(s) == SectionsOf(SplitPair(s, Colon, Colon)[1]) + 1
GapLength(s) ==
    LET sides == SplitPair(s, Colon, Colon)
    IN  IF Len(sides) = 1 THEN 0 ELSE 8 - SectionsOf(sides[1]) - SectionsOf(sides[2])

-----------------------------------------------------------------------------
(* Properties *)

Bytes == 0 .. MaxByte
Words16 == 0 .. MaxWord

\* Every text is a sequence of characters and a value has the shape and the
\* widths of its class: four octets, eight 16-bit groups, a 16-bit port
\* (address_v4, address_v6, port and the socket addresses).
TypeOK ==
    /\ class \in Classes
    /\ text \in Seq(0 .. Other)
    /\ odd \in 0 .. Len(MaxTokens[class]) - 1
    /\ tokens \in 0 .. MaxTokens[class][1]
    /\ phase \in {"typed", "read", "printed"}
    /\ value # Invalid =>
         CASE class = "address_v4" -> value \in [1 .. 4 -> Bytes]
           [] class = "address_v6" -> value \in [1 .. 8 -> Words16]
           [] class = "port" -> value \in [1 .. 1 -> Words16]
           [] class = "socket_v4_info" -> value[1] \in [1 .. 4 -> Bytes] /\ value[2] \in [1 .. 1 -> Words16]
           [] class = "socket_v6_info" -> value[1] \in [1 .. 8 -> Words16] /\ value[2] \in [1 .. 1 -> Words16]

\* What from_string makes of a text is what the text means.  An IPv6 text that
\* is refused stands for no address; if it is accepted, memory holds the octets
\* of the one address it stands for in network order, except for eight groups
\* and "::" (GapStandsForZeros).  An IPv4 address, a port and an IPv4 socket
\* address have one spelling only, the one they are printed as
\* (address_v6::from_string, address_v4::from_string, port::from_string).
MeansItsText ==
    phase = "read" =>
        CASE class = "address_v6" ->
               IF value = Invalid THEN text = << >> \/ V6Meaning(text) = {}
               ELSE V6Meaning(text) = {Memory(value)} \/ GapOfNone(text)
          [] class \in {"address_v4", "port", "socket_v4_info"} ->
               value # Invalid =>
                  \E sep \in Separators(class) : text = Format(class, value, sep, << >>)
          [] OTHER -> TRUE

\* The same without the exception: a text that address_v6::from_string accepts
\* stands for an address, so that a "::" in it stands for zeros, as the comment
\* on the compressed form says.
GapStandsForZeros ==
    phase = "read" /\ class = "address_v6" /\ value # Invalid =>
        V6Meaning(text) = {Memory(value)}

\* Whatever specification and separator a value is printed with, from_string
\* reads the text back as the same value (the formatter specialisations and
\* the to_string functions against the parsers).
ReadsBack == phase = "printed" => FromString(class, text) = value

\* from_string_uncheck, whose precondition is a text from_string accepts, meets
\* none of its undefined behaviour on such a text and returns the same value.
UncheckAgrees ==
    phase # "typed" /\ value # Invalid => FromStringUncheck(class, text) = value

\* The gap a printed address has is at least as long as any gap of two groups
\* or more the caller wrote for it, and further left if it is as long: the
\* choice RFC 5952 asks of compressed_ipv6.
LongestGap ==
    (/\ phase = "read" /\ class = "address_v6" /\ value # Invalid
     /\ ~Contains(text, Dot) /\ GapLength(text) >= 2) =>
        LET shown == FormatV6(value, <<"r", "n">>)
        IN  \/ GapLength(shown) > GapLength(text)
            \/ GapLength(shown) = GapLength(text) /\ GapStart(shown) <= GapStart(text)

\* An address is reported as IPv4-mapped exactly when its octets say so, and
\* the IPv4 address in it is made of its last four octets (is_ipv4_mapped,
\* to_ipv4_mapped).
MappedV4 ==
    (phase = "read" /\ class = "address_v6" /\ value # Invalid) =>
        LET octets == Memory(value)
        IN  /\ is_ipv4_mapped(value) <=> SubSeq(octets, 1, 12) = Zeros(10) \o <<255, 255>>
            /\ is_ipv4_mapped(value) => to_ipv4_mapped(value) = SubSeq(octets, 13, 16)

=============================================================================
