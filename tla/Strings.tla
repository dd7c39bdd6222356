------------------------------ MODULE Strings ------------------------------
(***************************************************************************)
(* The memory and string functions, libc/string.c, and the lookup of boot  *)
(* modules by path, fs/kmodule.c.  A pointer is an index into the memory   *)
(* M, a function from addresses to bytes; a function that writes returns   *)
(* the memory after it.  Reading outside M is outside its domain: a fault. *)
(* The state is one use of strtok: a string is cut, call after call.       *)
(***************************************************************************)
EXTENDS Integers, Sequences, SequencesExt

CONSTANTS
  Size,     \* bytes of memory in front of the delimiters
  Chars     \* the bytes that occur in it, 0 among them

VARIABLES
  mem,      \* the memory: Size bytes, a 0, and the delimiter string
  p,        \* the static variable of strtok
  ret,      \* what its last call returned
  orig,     \* the memory before the first call
  tokens    \* the strings it has returned

vars == <<mem, p, ret, orig, tokens>>

NULL == -1
char(b) == IF b > 127 THEN b - 256 ELSE b

-----------------------------------------------------------------------------
(* Memory.                                                                 *)

RECURSIVE memchr(_, _, _, _)
memchr(M, s, c, n) ==
  IF n = 0 THEN NULL ELSE IF M[s] # c THEN memchr(M, s + 1, c, n - 1) ELSE s

RECURSIVE memcmp(_, _, _, _)
memcmp(M, s1, s2, n) ==
  IF n = 0 THEN 0
  ELSE IF M[s1] # M[s2] THEN char(M[s1]) - char(M[s2])
  ELSE memcmp(M, s1 + 1, s2 + 1, n - 1)

RECURSIVE memcpy(_, _, _, _)
memcpy(M, dest, src, n) ==
  IF n = 0 THEN M ELSE memcpy([M EXCEPT ![dest] = M[src]], dest + 1, src + 1, n - 1)

\* Mutant: always from the front.
memmoveForward(M, dest, src, n) == memcpy(M, dest, src, n)

\* From the back when the destination is behind the source.
memmove(M, dest, src, n) ==
  IF src < dest
  THEN FoldLeft(LAMBDA m, k : [m EXCEPT ![dest + n - k] = m[src + n - k]],
                M, [k \in 1 .. n |-> k])
  ELSE memcpy(M, dest, src, n)

memset(M, s, c, n) == [a \in DOMAIN M |-> IF a \in s .. s + n - 1 THEN c ELSE M[a]]

-----------------------------------------------------------------------------
(* Strings.                                                                *)

RECURSIVE strlen(_, _)
strlen(M, s) == IF M[s] = 0 THEN 0 ELSE 1 + strlen(M, s + 1)

\* The byte at maxlen is read before the length is compared.
RECURSIVE strnlen(_, _, _)
strnlen(M, s, maxlen) ==
  IF M[s] = 0 \/ maxlen = 0 THEN 0 ELSE 1 + strnlen(M, s + 1, maxlen - 1)

RECURSIVE strcpy(_, _, _)
strcpy(M, dest, src) ==
  LET m == [M EXCEPT ![dest] = M[src]]
  IN  IF m[dest] = 0 THEN m ELSE strcpy(m, dest + 1, src + 1)

strcat(M, dest, src) == strcpy(M, dest + strlen(M, dest), src)

\* The loop of strncat from the end of dest on.
RECURSIVE CopyUpTo(_, _, _, _)
CopyUpTo(M, dest, src, n) ==
  LET m == [M EXCEPT ![dest] = M[src]]
  IN  IF n = 0 THEN [M EXCEPT ![dest] = 0]
      ELSE IF m[dest] = 0 THEN m ELSE CopyUpTo(m, dest + 1, src + 1, n - 1)

strncat(M, dest, src, n) == CopyUpTo(M, dest + strlen(M, dest), src, n)

\* Mutant: no padding behind the terminator.
strncpyShort(M, dest, src, n) ==
  memcpy(M, dest, src, IF strlen(M, src) + 1 > n THEN n ELSE strlen(M, src) + 1)

\* The rest of the n bytes is filled with 0; a string of n bytes or more is
\* left without a terminator.
RECURSIVE strncpy(_, _, _, _)
strncpy(M, dest, src, n) ==
  LET m == [M EXCEPT ![dest] = M[src]]
  IN  IF n = 0 THEN M
      ELSE IF m[dest] = 0 THEN memset(m, dest + 1, 0, n - 1)
      ELSE strncpy(m, dest + 1, src + 1, n - 1)

\* Mutant: the end of the second string alone ends the comparison as well.
strcmpEither(M, s1, s2) ==
  LET n == IF strlen(M, s1) < strlen(M, s2) THEN strlen(M, s1) ELSE strlen(M, s2)
  IN  memcmp(M, s1, s2, n)

\* The end of the first string ends the comparison, wherever the second is.
RECURSIVE strcmp(_, _, _)
strcmp(M, s1, s2) ==
  IF M[s1] = 0 THEN 0
  ELSE IF M[s1] # M[s2] THEN char(M[s1]) - char(M[s2])
  ELSE strcmp(M, s1 + 1, s2 + 1)

\* Bytes behind a terminator are compared as well.
RECURSIVE strncmp(_, _, _, _)
strncmp(M, s1, s2, n) ==
  IF n = 0 THEN 0
  ELSE IF M[s1] # M[s2] THEN M[s1] - M[s2]
  ELSE strncmp(M, s1 + 1, s2 + 1, n - 1)

strxfrm(M, dest, src, n) ==
  <<IF n > strlen(M, src) THEN strcpy(M, dest, src) ELSE M, strlen(M, src)>>

\* The transformed strings are copies, so that they need no room of their own.
strcoll(M, s1, s2) == strcmp(M, s1, s2)

RECURSIVE strchr(_, _, _)
strchr(M, s, c) ==
  IF M[s] = c THEN s ELSE IF M[s] = 0 THEN NULL ELSE strchr(M, s + 1, c)

\* The loop of strrchr.
RECURSIVE LastOf(_, _, _, _)
LastOf(M, s, c, last) ==
  LET r == IF M[s] = c THEN s ELSE last
  IN  IF M[s] = 0 THEN r ELSE LastOf(M, s + 1, c, r)

strrchr(M, s, c) == LastOf(M, s, c, NULL)

RECURSIVE strspn(_, _, _)
strspn(M, s1, s2) ==
  IF M[s1] # 0 /\ strchr(M, s2, M[s1]) # NULL THEN 1 + strspn(M, s1 + 1, s2) ELSE 0

RECURSIVE strcspn(_, _, _)
strcspn(M, s1, s2) ==
  IF M[s1] = 0 \/ strchr(M, s2, M[s1]) # NULL THEN 0 ELSE 1 + strcspn(M, s1 + 1, s2)

RECURSIVE strpbrk(_, _, _)
strpbrk(M, s1, s2) ==
  IF M[s1] = 0 THEN NULL
  ELSE IF strchr(M, s2, M[s1]) # NULL THEN s1 ELSE strpbrk(M, s1 + 1, s2)

\* The loop of strstr; memcmp stops at the terminator of s1 at the latest.
RECURSIVE Occurs(_, _, _, _)
Occurs(M, s1, s2, n) ==
  IF M[s1] = 0 THEN NULL
  ELSE IF memcmp(M, s1, s2, n) = 0 THEN s1 ELSE Occurs(M, s1 + 1, s2, n)

\* Mutant: the last character of s2 is not compared.
strstrShort(M, s1, s2) == Occurs(M, s1, s2, IF M[s2] = 0 THEN 0 ELSE strlen(M, s2) - 1)

strstr(M, s1, s2) == Occurs(M, s1, s2, strlen(M, s2))

\* Mutant: the next call starts at the terminator, not behind it.
strtokStuck(M, q, str, delim) ==
  LET from == IF str # NULL THEN str ELSE q
      s    == from + strspn(M, from, delim)
      e    == s + strcspn(M, s, delim)
  IN  IF from = NULL THEN <<M, NULL, NULL>>
      ELSE IF e = s THEN <<M, NULL, NULL>>
      ELSE <<[M EXCEPT ![e] = 0], e, s>>

\* <<memory, static p, return value>> after a call.
strtok(M, q, str, delim) ==
  LET from == IF str # NULL THEN str ELSE q
      s    == from + strspn(M, from, delim)
      e    == s + strcspn(M, s, delim)
  IN  IF from = NULL THEN <<M, NULL, NULL>>
      ELSE IF e = s THEN <<M, NULL, NULL>>
      ELSE IF M[e] # 0 THEN <<[M EXCEPT ![e] = 0], e + 1, s>>
      ELSE <<M, NULL, s>>

-----------------------------------------------------------------------------
(* Boot modules: paths is the sequence of pointers to their paths.         *)

\* The position one behind the last module is let through; the model has no
\* entry there (a fault).
kmoduleGet(paths, num) == IF num > Len(paths) THEN NULL ELSE paths[num + 1]

RECURSIVE FindFrom(_, _, _, _)
FindFrom(M, paths, i, path) ==
  IF i > Len(paths) THEN NULL
  ELSE IF strcmp(M, path, paths[i]) = 0 THEN paths[i]
  ELSE FindFrom(M, paths, i + 1, path)

\* Mutant: the last module is not looked at.
kmoduleFindByPathShort(M, paths, path) == FindFrom(M, Front(paths), 1, path)

kmoduleFindByPath(M, paths, path) == FindFrom(M, paths, 1, path)

-----------------------------------------------------------------------------
(* One string is cut by calls of strtok.                                   *)

delim == Size + 1
String(M, s) == [k \in 1 .. strlen(M, s) |-> M[s + k - 1]]

Init ==
  /\ mem \in {M \in [0 .. Size + 2 -> Chars] : M[Size] = 0 /\ M[Size + 2] = 0}
  /\ p = NULL /\ ret = NULL /\ tokens = <<>>
  /\ orig = mem

Cut(str) ==
  LET r == strtok(mem, p, str, delim)
  IN  /\ mem' = r[1] /\ p' = r[2] /\ ret' = r[3]
      /\ tokens' = IF r[3] = NULL THEN tokens ELSE Append(tokens, String(r[1], r[3]))
      /\ UNCHANGED orig

\* The caller names its string once, then passes NULL until it gets NULL.
Next == \/ tokens = <<>> /\ ret = NULL /\ p = NULL /\ Cut(0)
        \/ ret # NULL /\ Cut(NULL)

Spec == Init /\ [][Next]_vars

-----------------------------------------------------------------------------
(* Properties.  Every memory is an initial state, so that the invariants   *)
(* about functions cover all their arguments inside it.                    *)

End(s) == s + strlen(mem, s)

\* memmove has the effect of copying all bytes at once, also when source and
\* destination overlap in either direction; krealloc relies on it.
MoveOverlap ==
  \A d, s, n \in 0 .. Size : d + n <= Size + 1 /\ s + n <= Size + 1 =>
    memmove(mem, d, s, n) =
      [a \in DOMAIN mem |-> IF a \in d .. d + n - 1 THEN mem[s + (a - d)] ELSE mem[a]]

\* With strings that do not overlap, strcpy, strcat, strncpy and strncat leave
\* the string their name says and change nothing behind it: strncpy fills
\* exactly n bytes, strncat adds at most n characters and a terminator, and
\* strxfrm copies only what fits with its terminator.
CopiesBounded ==
  \A d, s, n \in 0 .. Size : End(s) < d \/ (d + n <= s /\ End(d) + n < s) =>
    LET src == String(mem, s)
        Put(at, bytes) == [a \in DOMAIN mem |-> IF a \in at .. at + Len(bytes) - 1
                                                THEN bytes[a - at + 1] ELSE mem[a]]
        part == SubSeq(src, 1, Min({n, Len(src)}))
        pad  == [k \in 1 .. n |-> IF k <= Len(src) THEN src[k] ELSE 0]
    IN  /\ d + n <= Size + 1 => strncpy(mem, d, s, n) = Put(d, pad)
        /\ End(d) + Len(part) <= Size =>
             strncat(mem, d, s, n) = Put(End(d), Append(part, 0))
        /\ n > Len(src) /\ d + n <= Size + 1 =>
             /\ strxfrm(mem, d, s, n) = <<Put(d, Append(src, 0)), Len(src)>>
             /\ End(d) + n <= Size + 1 => strcat(mem, d, s) = Put(End(d), Append(src, 0))
        /\ n <= Len(src) => strxfrm(mem, d, s, n) = <<mem, Len(src)>>

\* The searches find the first (strrchr: the last) place there is, and none
\* when there is none; strstr finds the empty string only in a string that is
\* not empty.  None of them reads behind a terminator.
Searches ==
  \A s, d \in {k \in DOMAIN mem : k # Size} :
    LET str == String(mem, s)
        set == String(mem, d)
        e   == End(s)
        Least(P) == IF P = {} THEN NULL ELSE Min(P)
        Greatest(P) == IF P = {} THEN NULL ELSE Max(P)
        InSet    == {a \in s .. e - 1 : Contains(set, mem[a])}
        Outside  == (s .. e - 1) \ InSet
    IN  /\ \A c \in Chars :
             LET at == {a \in s .. e : mem[a] = c}
             IN  /\ strchr(mem, s, c) = Least(at) /\ strrchr(mem, s, c) = Greatest(at)
                 /\ \A n \in 0 .. e - s :
                      memchr(mem, s, c, n) = Least({a \in at : a < s + n})
        /\ strpbrk(mem, s, d) = Least(InSet)
        /\ strcspn(mem, s, d) = Least(InSet \union {e}) - s
        /\ strspn(mem, s, d) = Least(Outside \union {e}) - s
        /\ strstr(mem, s, d) = Least({a \in s .. e - 1 : IsPrefix(set, String(mem, a))})
        /\ \A n \in 0 .. Size - s : strnlen(mem, s, n) = IF n < e - s THEN n ELSE e - s

\* strcmp and strcoll return 0 exactly when the first string is a prefix of the
\* second.  Otherwise the first difference decides, by signed characters in
\* strcmp and memcmp and by unsigned ones in strncmp.
PrefixEqual ==
  \A s, d \in 0 .. Size :
    LET n    == IF s > d THEN Size + 1 - s ELSE Size + 1 - d
        diff == {k \in 0 .. n - 1 : mem[s + k] # mem[d + k]}
        k1   == Min(diff)
        c    == strcmp(mem, s, d)
    IN  /\ (c = 0) = IsPrefix(String(mem, s), String(mem, d))
        /\ strcoll(mem, s, d) = c
        /\ c # 0 => c = memcmp(mem, s, d, n) /\ c = char(mem[s + k1]) - char(mem[d + k1])
        /\ strncmp(mem, s, d, n) = IF diff = {} THEN 0 ELSE mem[s + k1] - mem[d + k1]

\* The calls of strtok return, one after the other, the longest runs of
\* characters that are no delimiters, all of them, and then NULL; the bytes
\* of a token are never changed later.
TokensSplit ==
  LET str == String(orig, 0)
      sep == {orig[delim]}
      beg == {i \in DOMAIN str : str[i] \notin sep /\ (i > 1 => str[i - 1] \in sep)}
      Run(i) == SubSeq(str, i, i + strcspn(orig, i - 1, delim) - 1)
      all == [k \in 1 .. Len(SetToSortSeq(beg, <)) |-> Run(SetToSortSeq(beg, <)[k])]
  IN  /\ IsPrefix(tokens, all)
      /\ tokens # <<>> /\ ret = NULL => tokens = all
      /\ \A k \in DOMAIN tokens : String(mem, SetToSortSeq(beg, <)[k] - 1) = tokens[k]

\* kmoduleFindByPath returns the first module whose path begins with the path
\* that is asked for, and NULL if there is none.
ModuleLookup ==
  \A a, b \in 0 .. Size, path \in 0 .. Size :
    LET paths == <<a, b>>
        fits  == {i \in 1 .. 2 : IsPrefix(String(mem, path), String(mem, paths[i]))}
        found == IF 1 \in fits THEN a ELSE IF 2 \in fits THEN b ELSE NULL
    IN  /\ kmoduleFindByPath(mem, paths, path) = found
        /\ \A i \in 0 .. 1 : kmoduleGet(paths, i) = paths[i + 1] /\ kmoduleGet(paths, 3) = NULL
=============================================================================
