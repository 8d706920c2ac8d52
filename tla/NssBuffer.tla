------------------------------ MODULE NssBuffer ------------------------------
(***************************************************************************)
(* How an NSS function packs an entry into the buffer of its caller:       *)
(* push_string, push_group and push_passwd in nss/nss.cpp, for the entries *)
(* that module Records lists.  A caller that gets ERANGE comes back with a *)
(* larger buffer, so that what matters is the exact size from which on an  *)
(* entry fits.  A string is its length here.                               *)
(***************************************************************************)
EXTENDS Records

CONSTANTS
    Word,        \* the size of a pointer
    Length,      \* the lengths of logins and of names of groups
    TextLength,  \* the length of gecos, home and shell
    MaxBuffer    \* the largest buffer

ASSUME BufferAssumption ==
    /\ Word \in Nat \ {0} /\ MaxBuffer \in Nat /\ TextLength \in Nat
    /\ Length \in [Logins \cup GroupNames -> Nat]

\* ptr and remain of the functions, the fields written so far, and whether
\* none has failed.
Start(buflen) == [ptr |-> 0, remain |-> buflen, put |-> <<>>, ok |-> TRUE]

push_string(buffer, length) ==
    LET fsize == length + 1 IN
    IF ~buffer.ok \/ fsize > buffer.remain THEN [buffer EXCEPT !.ok = FALSE]
    ELSE [ptr |-> buffer.ptr + fsize, remain |-> buffer.remain - fsize,
          put |-> Append(buffer.put, [from |-> buffer.ptr, size |-> fsize]),
          ok  |-> TRUE]

\* after[i] is the buffer behind the first i strings.
push_strings(strings, buflen) ==
    LET after[i \in 0 .. Len(strings)] ==
            IF i = 0 THEN Start(buflen) ELSE push_string(after[i - 1], strings[i])
    IN  after[Len(strings)]

\* Mutant: the null at the end of gr_mem is forgotten in the comparison.
TableFitsUnended(buffer, members) == Word * Len(members) <= buffer.remain

TableFits(buffer, members) == Word * (Len(members) + 1) <= buffer.remain

\* gr_mem is written behind the strings; the second string is "x".
push_group(row, buflen) ==
    LET lengths == [i \in DOMAIN row.members |-> Length[row.members[i]]]
        buffer  == push_strings(<<Length[row.name], 1>> \o lengths, buflen)
    IN  IF buffer.ok /\ TableFits(buffer, row.members)
        THEN [buffer EXCEPT !.put = Append(@,
                 [from |-> buffer.ptr, size |-> Word * (Len(row.members) + 1)])]
        ELSE [buffer EXCEPT !.ok = FALSE]

push_passwd(user, buflen) ==
    push_strings(<<Length[user.login], 1, TextLength, TextLength, TextLength>>, buflen)

-----------------------------------------------------------------------------
\* The bytes of the fields, in their order.
GroupSizes(row) ==
    <<Length[row.name] + 1, 2>>
       \o [i \in DOMAIN row.members |-> Length[row.members[i]] + 1]
       \o <<Word * (Len(row.members) + 1)>>

PasswdSizes(user) ==
    <<Length[user.login] + 1, 2, TextLength + 1, TextLength + 1, TextLength + 1>>

Bytes(field) == field.from .. field.from + field.size - 1

Total(sizes) ==
    LET sum[i \in 0 .. Len(sizes)] == IF i = 0 THEN 0 ELSE sum[i - 1] + sizes[i]
    IN  sum[Len(sizes)]

\* The fields have these sizes, and none is on another's bytes or outside.
Packed(buffer, sizes, buflen) ==
    /\ [i \in DOMAIN buffer.put |-> buffer.put[i].size] = sizes
    /\ \A i \in DOMAIN sizes : Bytes(buffer.put[i]) \subseteq 0 .. buflen - 1
    /\ \A i, j \in DOMAIN sizes :
          i # j => Bytes(buffer.put[i]) \cap Bytes(buffer.put[j]) = {}

PackedIfItFits(buffer, sizes, buflen) ==
    /\ buffer.ok <=> Total(sizes) <= buflen
    /\ buffer.ok => Packed(buffer, sizes, buflen)

(***************************************************************************)
(* For every entry of a listing and every buffer: what push_group and      *)
(* push_passwd write lies in the buffer, gr_mem and its final null         *)
(* included, no two fields overlap, and ERANGE says that the buffer is     *)
(* smaller than the entry, so that a caller who retries gets it.           *)
(***************************************************************************)
EntriesArePacked ==
    at = "listed" => \A buflen \in 0 .. MaxBuffer :
        /\ \A row \in Range(rows) :
              PackedIfItFits(push_group(row, buflen), GroupSizes(row), buflen)
        /\ \A user \in Range(users) :
              PackedIfItFits(push_passwd(user, buflen), PasswdSizes(user), buflen)

=============================================================================
