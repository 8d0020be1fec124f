----------------------------- MODULE MessageHeader -----------------------------
(***************************************************************************)
(* What the header's fields do to the values put into them: names are cut  *)
(* at a fixed width, numbers and lengths are two bytes, a text grows when  *)
(* it is encrypted.  C++ (MessageLayer.cpp, CryptoLayer.cpp) and Rust      *)
(* (message_header.rs).  Checksums are only known to match or not; offsets *)
(* are left out, as the fields do not overlap.                             *)
(***************************************************************************)
EXTENDS Integers, Sequences

CONSTANTS Letters,        \* the bytes of a name, none of them 0
          UsernameLen,    \* bytes of a name field (32)
          Byte,           \* values of a byte (256)
          Overhead        \* what encryption adds: 24 of header, 17 of tag

ASSUME HeaderAssumption ==
    /\ Letters \subseteq Nat \ {0}
    /\ UsernameLen \in Nat \ {0}
    /\ Byte \in Nat \ {0, 1}
    /\ Overhead \in Nat \ {0}

Range16 == Byte * Byte
Shorts == 0..(Range16 - 1)
Names == Seq(Letters)
Fields == [1..UsernameLen -> Letters \cup {0}]

\* MessageHeader::clear, header.fill(0).
Cleared == [i \in 1..UsernameLen |-> 0]

\* C++: the field is zeroed and gets the name, or as much of it as leaves a
\* byte for the terminator.
SetUsername(name) ==
    [i \in 1..UsernameLen |->
        IF i \in DOMAIN name /\ i < UsernameLen THEN name[i] ELSE 0]

\* Rust: bytes are put over what is there; a terminator is never written, and
\* a name that is too long is an error.
Settable(name) == Len(name) <= UsernameLen
SetUsernameOver(field, name) ==
    [i \in 1..UsernameLen |-> IF i \in DOMAIN name THEN name[i] ELSE field[i]]

\* Both: the bytes up to the first zero, or all of them.
NameLength(field) ==
    CHOOSE n \in 0..UsernameLen :
        /\ \A i \in 1..n : field[i] # 0
        /\ n < UsernameLen => field[n + 1] = 0
GetUsername(field) == [i \in 1..NameLength(field) |-> field[i]]

\* Numbers and lengths: converted to uint16_t by the call, stored in network
\* order.
PutShort(n) == <<(n \div Byte) % Byte, n % Byte>>
GetShort(bytes) == bytes[1] * Byte + bytes[2]

\* The length a header announces for a body of n bytes.
Announced(n) == GetShort(PutShort(n))

\* The server's increment_packet_number, and the client's uint16_t.
IncrementPacketNumber(n) == (n + 1) % (Range16 - 1)
NextPacketNumber(n) == (n + 1) % Range16

\* Sizes in bytes of what Crypto::encrypt makes of a text, and of the buffer
\* Crypto::decrypt makes for the text: a size_t, which must not go below 0.
EncryptedSize(text) == text + Overhead
DecryptedSize(body) == body - Overhead

-------------------------------------------------------------------------------
\* The names of at most n letters.
NamesUpTo(n) == UNION {[1..k -> Letters] : k \in 0..n}

Cut(name) == SubSeq(name, 1, IF Len(name) < UsernameLen THEN Len(name)
                                                       ELSE UsernameLen - 1)

\* A user is addressed under what the servers read as the login name.  What
\* one types as a recipient is that name exactly when the two are the same
\* up to the width of the field, less one: two names that differ in their
\* first 31 bytes are never taken for each other, and none that fits is
\* changed (MessageLayer.cpp:127-143, Client.cpp:400-401).
NamesKeptApart(names) ==
    \A a, b \in names :
        /\ (GetUsername(SetUsername(a)) = GetUsername(SetUsername(b)))
               <=> (Cut(a) = Cut(b))
        /\ Len(a) < UsernameLen => GetUsername(SetUsername(a)) = a

\* A name that came in over the wire goes out again as the same bytes, from
\* either server, so that the Rust server's setter, which neither clears the
\* field nor ends the name, and unwraps an error, is safe on a header it has
\* cleared (message_header.rs:52-73, main.rs:48-56).
NamesReturnUnchanged(names) ==
    \A name \in names :
        LET read == GetUsername(SetUsername(name)) IN
        /\ SetUsername(read) = SetUsername(name)
        /\ Settable(read)
        /\ SetUsernameOver(Cleared, read) = SetUsername(name)
===============================================================================
