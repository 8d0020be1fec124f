-------------------------- MODULE MessageHeaderProofs --------------------------
(***************************************************************************)
(* Names in header fields, for every width of the field and every name.    *)
(***************************************************************************)
EXTENDS MessageHeader, TLAPS

USE HeaderAssumption

\* What is read from a field is determined by its first zero.
LEMMA NameLengthIs ==
    ASSUME NEW field \in Fields, NEW n \in 0..UsernameLen,
           \A i \in 1..n : field[i] # 0,
           n < UsernameLen => field[n + 1] = 0
    PROVE  NameLength(field) = n
<1> DEFINE Is(m) == /\ \A i \in 1..m : field[i] # 0
                    /\ m < UsernameLen => field[m + 1] = 0
<1>1. Is(n)
  OBVIOUS
<1>2. ASSUME NEW m \in 0..UsernameLen, Is(m) PROVE m = n
  <2>1. ~(m < n)
    <3> SUFFICES ASSUME m < n PROVE FALSE
      OBVIOUS
    <3> m + 1 \in 1..n /\ field[m + 1] = 0
      BY <1>2
    <3> QED  OBVIOUS
  <2>2. ~(n < m)
    <3> SUFFICES ASSUME n < m PROVE FALSE
      OBVIOUS
    <3> n + 1 \in 1..m /\ field[n + 1] = 0
      OBVIOUS
    <3> QED  BY <1>2
  <2> QED  BY <2>1, <2>2
<1>3. NameLength(field) = CHOOSE m \in 0..UsernameLen : Is(m)
  BY DEF NameLength
<1> HIDE DEF Is
<1> QED  BY <1>1, <1>2, <1>3

\* Writing a name and reading it keeps what fits before the terminator.
LEMMA ReadIsCut ==
    ASSUME NEW name \in Names
    PROVE  /\ GetUsername(SetUsername(name)) = Cut(name)
           /\ Cut(name) \in Names /\ Len(Cut(name)) < UsernameLen
           /\ \A i \in 1..Len(Cut(name)) : Cut(name)[i] = name[i]
<1> DEFINE n == IF Len(name) < UsernameLen THEN Len(name) ELSE UsernameLen - 1
           field == SetUsername(name)
<1>1. n \in 0..UsernameLen /\ n < UsernameLen /\ n <= Len(name)
  BY DEF Names
<1>2. /\ Cut(name) \in Names /\ Len(Cut(name)) = n
      /\ \A i \in 1..n : Cut(name)[i] = name[i]
  BY <1>1 DEF Cut, Names
<1>3. field \in Fields
  BY DEF SetUsername, Fields, Names
<1>4. \A i \in 1..n : field[i] = name[i] /\ field[i] # 0
  BY <1>1 DEF SetUsername, Names
<1>5. field[n + 1] = 0
  BY <1>1 DEF SetUsername, Names
<1>6. NameLength(field) = n
  <2> HIDE DEF n, field
  <2> QED  BY <1>1, <1>3, <1>4, <1>5, NameLengthIs
<1>7. GetUsername(field) = [i \in 1..n |-> name[i]]
  <2> HIDE DEF n
  <2> QED  BY <1>4, <1>6 DEF GetUsername
<1>8. Cut(name) = [i \in 1..n |-> name[i]]
  <2> HIDE DEF n
  <2> QED  BY <1>1, <1>2 DEF Names
<1> QED  BY <1>1, <1>2, <1>7, <1>8

\* Names are told apart by all that fits into the field (NamesKeptApart, of
\* every name there is).
THEOREM AllNamesKeptApart == NamesKeptApart(Names)
<1>1. ASSUME NEW a \in Names, Len(a) < UsernameLen PROVE Cut(a) = a
  BY <1>1 DEF Cut, Names
<1> QED  BY <1>1, ReadIsCut DEF NamesKeptApart

\* A name read from the wire goes out as the bytes that came in
\* (NamesReturnUnchanged, of every name there is).
THEOREM AllNamesReturnUnchanged == NamesReturnUnchanged(Names)
<1> SUFFICES ASSUME NEW name \in Names
             PROVE  LET read == GetUsername(SetUsername(name)) IN
                    /\ SetUsername(read) = SetUsername(name)
                    /\ Settable(read)
                    /\ SetUsernameOver(Cleared, read) = SetUsername(name)
  BY DEF NamesReturnUnchanged
<1> DEFINE read == Cut(name)
<1>1. /\ GetUsername(SetUsername(name)) = read
      /\ read \in Names /\ Len(read) < UsernameLen
      /\ \A i \in 1..Len(read) : read[i] = name[i]
  BY ReadIsCut
<1>2. \A i \in 1..UsernameLen :
          i \in DOMAIN read <=> i \in DOMAIN name /\ i < UsernameLen
  BY DEF Cut, Names
<1>3. DOMAIN read = 1..Len(read)
  BY <1>1 DEF Names
<1> HIDE DEF read
<1>4. SetUsername(read) = SetUsername(name)
  BY <1>1, <1>2, <1>3 DEF SetUsername
<1>5. SetUsernameOver(Cleared, read) = SetUsername(name)
  BY <1>1, <1>2, <1>3 DEF SetUsername, SetUsernameOver, Cleared
<1>6. Settable(read)
  BY <1>1 DEF Settable, Names
<1> QED  BY <1>1, <1>4, <1>5, <1>6

-------------------------------------------------------------------------------
\* A length of at most two bytes is announced as it is; a longer one as less,
\* so that a body this long cannot be read whole (MessageLayer.cpp:195-209,
\* message_header.rs:96-114).
THEOREM ShortLengthsAreAnnounced ==
    \A n \in Nat : /\ Announced(n) \in Shorts
                   /\ n \in Shorts => Announced(n) = n
                   /\ n \notin Shorts => Announced(n) < n
<1> SUFFICES ASSUME NEW n \in Nat
             PROVE  /\ Announced(n) \in Shorts
                    /\ n \in Shorts => Announced(n) = n
                    /\ n \notin Shorts => Announced(n) < n
  OBVIOUS
<1> DEFINE q == n \div Byte
           r == n % Byte
           h == q % Byte
<1>1. q \in Nat /\ r \in 0..(Byte - 1) /\ n = Byte * q + r
  BY SMT
<1>2. h \in 0..(Byte - 1) /\ (q < Byte => h = q)
  BY <1>1, SMT
<1>3. Announced(n) = h * Byte + r
  BY DEF Announced, PutShort, GetShort
<1> HIDE DEF q, r, h
<1>4. h * Byte + r \in Shorts
  <2>1. h * Byte <= (Byte - 1) * Byte
    BY <1>2, SMT
  <2>2. h * Byte \in Nat
    BY <1>2, SMT
  <2>3. (Byte - 1) * Byte = Byte * Byte - Byte
    BY SMT
  <2> QED  BY <1>1, <1>2, <2>1, <2>2, <2>3 DEF Shorts, Range16
<1>5. ASSUME n \in Shorts PROVE q < Byte
  <2> SUFFICES ASSUME Byte <= q PROVE FALSE
    BY <1>1
  <2>1. Byte * Byte <= Byte * q
    BY <1>1, SMT
  <2> QED  BY <1>1, <1>5, <2>1 DEF Shorts, Range16
<1>6. ASSUME n \in Shorts PROVE Announced(n) = n
  <2>1. h * Byte = Byte * q
    BY <1>1, <1>2, <1>5, <1>6, SMT
  <2> QED  BY <1>1, <1>3, <2>1
<1>7. ASSUME n \notin Shorts PROVE Announced(n) < n
  <2>1. Byte * Byte \in Nat
    BY SMT
  <2> QED  BY <1>3, <1>4, <1>7, <2>1 DEF Shorts, Range16
<1> QED  BY <1>3, <1>4, <1>6, <1>7

\* The packet numbers of the server and of the client stay within two bytes,
\* the server's never at the last of them (Server.cpp:45-49).
LEMMA PacketNumbersAreShort ==
    \A n \in Shorts : /\ IncrementPacketNumber(n) \in 0..(Range16 - 2)
                      /\ NextPacketNumber(n) \in Shorts
<1>1. Range16 \in Nat /\ Range16 > 2
  <2>1. Byte * Byte >= 2 * Byte
    BY SMT
  <2> QED  BY <2>1, SMT DEF Range16
<1> SUFFICES ASSUME NEW n \in Shorts
             PROVE  /\ (n + 1) % (Range16 - 1) \in 0..(Range16 - 2)
                    /\ (n + 1) % Range16 \in Shorts
  BY DEF IncrementPacketNumber, NextPacketNumber
<1> QED  BY <1>1, SMT DEF Shorts
===============================================================================
