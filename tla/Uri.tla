-------------------------------- MODULE Uri --------------------------------
(***************************************************************************)
(* Finding the host in the request of a credential helper: the request     *)
(* body, the URI in it, the URI's host and path.                           *)
(*                                                                         *)
(* A text is a sequence of pieces: every delimiter is a piece of its own,  *)
(* and so is an escape; a run of other characters is one piece.            *)
(***************************************************************************)
EXTENDS Naturals, Sequences, FiniteSetsExt

At(s, ds)        == {i \in DOMAIN s : s[i] \in ds}
UpTo(s, ds)      == SubSeq(s, 1, Min(At(s, ds) \cup {Len(s) + 1}) - 1)
From(s, ds)      == SubSeq(s, Min(At(s, ds) \cup {Len(s) + 1}), Len(s))
AfterLast(s, ds) == SubSeq(s, Max(At(s, ds) \cup {0}) + 1, Len(s))

\* What follows the first occurrence of `mark`, and whether there is one.
Marks(s, mark) == {i \in 1..(Len(s) - Len(mark) + 1) : SubSeq(s, i, i + Len(mark) - 1) = mark}
After(s, mark) == SubSeq(s, Min(Marks(s, mark)) + Len(mark), Len(s))

SchemeMark == <<":", "/", "/">>
AfterScheme(u) == IF Marks(u, SchemeMark) = {} THEN u ELSE After(u, SchemeMark)

\* Mutant of HostOf: the port stays.
HostWithPort(u) == AfterLast(UpTo(AfterScheme(u), {"/", "?", "#"}), {"@"})

\* Neither user nor port; a colon with a "]" after it is part of an IPv6 address.
HostOf(u) ==
  LET hostPort == AfterLast(UpTo(AfterScheme(u), {"/", "?", "#"}), {"@"})
      colon    == Max(At(hostPort, {":"}) \cup {0})
  IN  IF colon > 0 /\ \A i \in At(hostPort, {"]"}) : i < colon
      THEN SubSeq(hostPort, 1, colon - 1) ELSE hostPort

PathOf(u) ==
  IF At(AfterScheme(u), {"/"}) = {} THEN <<"/">>
  ELSE UpTo(From(AfterScheme(u), {"/"}), {"?", "#"})
----------------------------------------------------------------------------
\* The escapes a JSON encoder may write for the pieces of a URI.
Unescaped == [e \in {"\\/", "\\u003d", "\\u0026"} |->
                CASE e = "\\/" -> "/" [] e = "\\u003d" -> "=" [] e = "\\u0026" -> "&"]

Quote  == "\""
UriKey == <<Quote, "uri", Quote>>

\* The first string after the colon after the first "uri"; no URI is the empty
\* one here: neither has a host.
RequestUri(body) ==
  IF Marks(body, UriKey) = {} \/ At(After(body, UriKey), {":"}) = {} THEN <<>>
  ELSE LET value  == From(From(After(body, UriKey), {":"}), {Quote})
           string == IF value = <<>> THEN <<>> ELSE UpTo(Tail(value), {Quote})
       IN  [i \in DOMAIN string |-> IF string[i] \in DOMAIN Unescaped
                                    THEN Unescaped[string[i]] ELSE string[i]]
============================================================================
