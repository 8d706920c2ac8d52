-------------------------- MODULE NssBuffer_proofs ---------------------------
(***************************************************************************)
(* Proofs about NssBuffer: for entries of any size and every buffer.       *)
(*                                                                         *)
(* The two recursive functions of the module are defined on an interval.   *)
(* That there is such a function, and what it yields, is shown by          *)
(* induction over sets: the numbers for which it is so are all of Nat.     *)
(***************************************************************************)
EXTENDS NssBuffer, Records_proofs, SequenceTheorems

LEMMA Induction ==
    ASSUME NEW S, 0 \in S, \A k \in Nat : k \in S => k + 1 \in S
    PROVE  \A k \in Nat : k \in S
<1> SUFFICES ASSUME Nat \ S # {} PROVE FALSE
  OBVIOUS
<1>1. Nat \ S \subseteq Nat
  OBVIOUS
<1>2. PICK k \in Nat \ S : \A j \in Nat \ S : k <= j
  BY <1>1, LeastElement
<1>3. k # 0 /\ k - 1 \in Nat /\ (k - 1) + 1 = k /\ ~(k <= k - 1)
  BY <1>2
<1>4. k - 1 \in S
  BY <1>2, <1>3
<1> QED
  BY <1>2, <1>3, <1>4

-----------------------------------------------------------------------------
(***************************************************************************)
(* Sums                                                                    *)
(***************************************************************************)
IsSum(sum, sizes, len) ==
    sum = [i \in 0 .. len |-> IF i = 0 THEN 0 ELSE sum[i - 1] + sizes[i]]

\* The sums of the first fields.
Sums(sizes) == CHOOSE sum : IsSum(sum, sizes, Len(sizes))

LEMMA SumsExist ==
    ASSUME NEW sizes, NEW len \in Nat
    PROVE  \E sum : IsSum(sum, sizes, len)
<1> DEFINE S == {k \in Nat : \E sum : IsSum(sum, sizes, k)}
<1>1. 0 \in S
  <2> DEFINE sum == [i \in 0 .. 0 |-> 0]
  <2>1. sum = [i \in 0 .. 0 |-> IF i = 0 THEN 0 ELSE sum[i - 1] + sizes[i]]
    OBVIOUS
  <2> QED
    BY <2>1 DEF IsSum
<1>2. ASSUME NEW k \in Nat, k \in S PROVE k + 1 \in S
  <2>1. PICK sum : sum = [i \in 0 .. k |-> IF i = 0 THEN 0 ELSE sum[i - 1] + sizes[i]]
    BY <1>2 DEF IsSum
  <2> DEFINE next == [i \in 0 .. k + 1 |-> IF i = k + 1 THEN sum[k] + sizes[k + 1]
                                           ELSE sum[i]]
  <2>2. \A i \in 0 .. k : next[i] = sum[i]
    OBVIOUS
  <2>3. ASSUME NEW i \in 0 .. k + 1
        PROVE  next[i] = IF i = 0 THEN 0 ELSE next[i - 1] + sizes[i]
    <3>1. CASE i = k + 1
      BY <2>2, <3>1
    <3>2. CASE i \in 0 .. k /\ i # 0
      <4>1. i - 1 \in 0 .. k /\ sum[i] = sum[i - 1] + sizes[i]
        BY <2>1, <3>2
      <4> QED
        BY <2>2, <3>2, <4>1
    <3>3. CASE i = 0
      BY <2>1, <2>2, <3>3
    <3> QED
      BY <3>1, <3>2, <3>3
  <2>4. next = [i \in 0 .. k + 1 |-> IF i = 0 THEN 0 ELSE next[i - 1] + sizes[i]]
    BY <2>3
  <2> HIDE DEF next
  <2> QED
    BY <2>4 DEF IsSum
<1> HIDE DEF S
<1>3. len \in S
  BY <1>1, <1>2, Induction
<1> QED
  BY <1>3 DEF S

LEMMA SumFacts ==
    ASSUME NEW sizes \in Seq(Nat)
    PROVE  /\ Total(sizes) = Sums(sizes)[Len(sizes)]
           /\ Sums(sizes)[0] = 0
           /\ \A i \in 1 .. Len(sizes) : Sums(sizes)[i] = Sums(sizes)[i - 1] + sizes[i]
           /\ \A i \in 0 .. Len(sizes) : Sums(sizes)[i] \in Nat
<1> DEFINE len == Len(sizes)
           sum == Sums(sizes)
<1>1. len \in Nat
  OBVIOUS
<1>2. IsSum(sum, sizes, len)
  BY <1>1, SumsExist DEF Sums
<1>3. Total(sizes) = sum[len]
  BY DEF Total, Sums, IsSum
<1> HIDE DEF len, sum
<1>4. sum[0] = 0 /\ \A i \in 1 .. len : sum[i] = sum[i - 1] + sizes[i]
  BY <1>1, <1>2 DEF IsSum
<1> DEFINE S == {k \in Nat : k <= len => sum[k] \in Nat}
<1>5. 0 \in S
  BY <1>4
<1>6. ASSUME NEW k \in Nat, k \in S PROVE k + 1 \in S
  <2>1. CASE k + 1 <= len
    <3>1. k + 1 \in 1 .. len /\ sum[k + 1] = sum[k] + sizes[k + 1]
      BY <1>1, <1>4, <2>1
    <3>2. sum[k] \in Nat /\ sizes[k + 1] \in Nat
      BY <1>1, <1>6, <2>1, <3>1 DEF len
    <3> QED
      BY <3>1, <3>2
  <2>2. CASE ~(k + 1 <= len)
    BY <2>2
  <2> QED
    BY <2>1, <2>2
<1> HIDE DEF S
<1>7. \A k \in Nat : k \in S
  BY <1>5, <1>6, Induction
<1>8. \A i \in 0 .. len : sum[i] \in Nat
  BY <1>1, <1>7 DEF S
<1> QED
  BY <1>3, <1>4, <1>8 DEF len, sum

\* One more field adds its size.
LEMMA TotalOfOneMore ==
    ASSUME NEW sizes \in Seq(Nat), NEW more \in Seq(Nat), Len(more) = Len(sizes) + 1,
           \A i \in 1 .. Len(sizes) : more[i] = sizes[i]
    PROVE  Total(more) = Total(sizes) + more[Len(more)]
<1> DEFINE len == Len(sizes)
           S == {k \in Nat : k <= len => Sums(more)[k] = Sums(sizes)[k]}
<1>1. len \in Nat /\ Len(more) = len + 1
  OBVIOUS
<1>2. /\ Total(sizes) = Sums(sizes)[len] /\ Sums(sizes)[0] = 0
      /\ \A i \in 1 .. len : Sums(sizes)[i] = Sums(sizes)[i - 1] + sizes[i]
  BY SumFacts
<1>3. /\ Total(more) = Sums(more)[len + 1] /\ Sums(more)[0] = 0
      /\ \A i \in 1 .. len + 1 : Sums(more)[i] = Sums(more)[i - 1] + more[i]
  BY <1>1, SumFacts
<1>4. \A i \in 1 .. len : more[i] = sizes[i]
  OBVIOUS
<1> HIDE DEF len
<1>5. 0 \in S
  BY <1>2, <1>3
<1>6. ASSUME NEW k \in Nat, k \in S PROVE k + 1 \in S
  <2>1. CASE k + 1 <= len
    <3>1. k + 1 \in 1 .. len /\ k + 1 \in 1 .. len + 1 /\ (k + 1) - 1 = k
      BY <1>1, <2>1
    <3>2. Sums(more)[k + 1] = Sums(more)[k] + more[k + 1]
      BY <1>3, <3>1
    <3>3. Sums(sizes)[k + 1] = Sums(sizes)[k] + sizes[k + 1]
      BY <1>2, <3>1
    <3>4. Sums(more)[k] = Sums(sizes)[k]
      BY <1>1, <1>6, <2>1
    <3> QED
      BY <1>4, <3>1, <3>2, <3>3, <3>4
  <2>2. CASE ~(k + 1 <= len)
    BY <2>2
  <2> QED
    BY <2>1, <2>2
<1> HIDE DEF S
<1>7. len \in S
  BY <1>1, <1>5, <1>6, Induction
<1>8. Sums(more)[len] = Sums(sizes)[len]
  BY <1>1, <1>7 DEF S
<1>9. len + 1 \in 1 .. len + 1 /\ (len + 1) - 1 = len
  BY <1>1
<1> QED
  BY <1>1, <1>2, <1>3, <1>8, <1>9 DEF len

-----------------------------------------------------------------------------
(***************************************************************************)
(* Fields                                                                  *)
(***************************************************************************)
Fields == [from : Nat, size : Nat]
Buffers == [ptr : Nat, remain : Nat, put : Seq(Fields), ok : BOOLEAN]

\* The first k fields have their sizes and lie one behind the other.
InPlace(put, sizes, k, end) ==
    /\ Len(put) = k
    /\ \A i \in 1 .. k : put[i].size = sizes[i] /\ put[i].from + put[i].size <= end
    /\ \A i, j \in 1 .. k : i < j => put[i].from + put[i].size <= put[j].from

LEMMA FieldFacts ==
    ASSUME NEW put \in Seq(Fields), NEW i \in 1 .. Len(put)
    PROVE  put[i].from \in Nat /\ put[i].size \in Nat
<1>1. put[i] \in Fields
  OBVIOUS
<1> QED
  BY <1>1 DEF Fields

LEMMA InPlaceAppend ==
    ASSUME NEW put \in Seq(Fields), NEW k \in Nat, NEW end \in Nat, NEW size \in Nat,
           NEW sizes, sizes[k + 1] = size, InPlace(put, sizes, k, end),
           NEW field, field = [from |-> end, size |-> size]
    PROVE  /\ Append(put, field) \in Seq(Fields)
           /\ InPlace(Append(put, field), sizes, k + 1, end + size)
<1> DEFINE more == Append(put, field)
<1>1. field \in Fields /\ field.from = end /\ field.size = size
  BY DEF Fields
<1>2. Len(put) = k
  BY DEF InPlace
<1>3. /\ more \in Seq(Fields) /\ Len(more) = k + 1 /\ more[k + 1] = field
      /\ \A i \in 1 .. k : more[i] = put[i]
  BY <1>1, <1>2, AppendFacts
<1> HIDE DEF more
<1>4. ASSUME NEW i \in 1 .. k
      PROVE  put[i].from \in Nat /\ put[i].size \in Nat
  BY <1>2, FieldFacts
<1>5. ASSUME NEW i \in 1 .. k + 1
      PROVE  more[i].size = sizes[i] /\ more[i].from + more[i].size <= end + size
  <2>1. CASE i = k + 1
    BY <1>1, <1>3, <2>1
  <2>2. CASE i \in 1 .. k
    BY <1>3, <1>4, <2>2 DEF InPlace
  <2> QED
    BY <2>1, <2>2
<1>6. ASSUME NEW i \in 1 .. k + 1, NEW j \in 1 .. k + 1, i < j
      PROVE  more[i].from + more[i].size <= more[j].from
  <2>1. i \in 1 .. k
    BY <1>6
  <2>2. CASE j = k + 1
    BY <1>1, <1>3, <1>4, <2>1, <2>2 DEF InPlace
  <2>3. CASE j \in 1 .. k
    BY <1>3, <1>6, <2>1, <2>3 DEF InPlace
  <2> QED
    BY <2>2, <2>3
<1>7. InPlace(more, sizes, k + 1, end + size)
  BY <1>3, <1>5, <1>6 DEF InPlace
<1> QED
  BY <1>3, <1>7 DEF more

LEMMA IntervalFacts ==
    ASSUME NEW a \in Nat, NEW size \in Nat, NEW top \in Nat, a + size <= top
    PROVE  /\ \A b \in Nat : top <= b => a .. a + size - 1 \subseteq 0 .. b - 1
           /\ \A next \in Nat : (a .. a + size - 1) \cap (top .. top + next - 1) = {}
OBVIOUS

\* Fields in their places do not overlap and are in the buffer.
LEMMA InPlaceIsPacked ==
    ASSUME NEW buffer, buffer.put \in Seq(Fields), NEW sizes \in Seq(Nat),
           NEW end \in Nat, NEW buflen \in Nat, end <= buflen,
           InPlace(buffer.put, sizes, Len(sizes), end)
    PROVE  Packed(buffer, sizes, buflen)
<1> DEFINE put == buffer.put
           len == Len(sizes)
<1>1. /\ len \in Nat /\ DOMAIN sizes = 1 .. len /\ DOMAIN put = 1 .. len
      /\ Len(put) = len
  BY DEF InPlace
<1>2. put \in Seq(Fields) /\ sizes = [i \in 1 .. len |-> sizes[i]]
  OBVIOUS
<1>3. /\ \A i \in 1 .. len : put[i].size = sizes[i] /\ put[i].from + put[i].size <= end
      /\ \A i, j \in 1 .. len : i < j => put[i].from + put[i].size <= put[j].from
  BY DEF InPlace
<1> HIDE DEF put, len
<1>4. \A i \in 1 .. len : put[i].from \in Nat /\ put[i].size \in Nat
  BY <1>1, <1>2, FieldFacts
<1>5. [i \in DOMAIN put |-> put[i].size] = sizes
  BY <1>1, <1>2, <1>3
<1>6. ASSUME NEW i \in 1 .. len PROVE Bytes(put[i]) \subseteq 0 .. buflen - 1
  <2>1. /\ put[i].from \in Nat /\ put[i].size \in Nat
        /\ put[i].from + put[i].size <= end
    BY <1>3, <1>4
  <2> QED
    BY <2>1, IntervalFacts DEF Bytes
<1>7. ASSUME NEW i \in 1 .. len, NEW j \in 1 .. len, i < j
      PROVE  Bytes(put[i]) \cap Bytes(put[j]) = {}
  <2>1. /\ put[i].from \in Nat /\ put[i].size \in Nat
        /\ put[j].from \in Nat /\ put[j].size \in Nat
        /\ put[i].from + put[i].size <= put[j].from
    BY <1>3, <1>4, <1>7
  <2> DEFINE a == put[i].from
             size == put[i].size
             b == put[j].from
             next == put[j].size
  <2>2. Bytes(put[i]) = a .. a + size - 1 /\ Bytes(put[j]) = b .. b + next - 1
    BY DEF Bytes
  <2> HIDE DEF a, size, b, next
  <2>3. a \in Nat /\ size \in Nat /\ b \in Nat /\ next \in Nat /\ a + size <= b
    BY <2>1 DEF a, size, b, next
  <2>4. (a .. a + size - 1) \cap (b .. b + next - 1) = {}
    BY <2>3, IntervalFacts
  <2> QED
    BY <2>2, <2>4
<1>8. ASSUME NEW i \in 1 .. len, NEW j \in 1 .. len, i # j
      PROVE  Bytes(put[i]) \cap Bytes(put[j]) = {}
  <2>1. i < j \/ j < i
    BY <1>1, <1>8
  <2> QED
    BY <1>7, <2>1
<1> QED
  BY <1>1, <1>5, <1>6, <1>8 DEF Packed, put

-----------------------------------------------------------------------------
(***************************************************************************)
(* Strings                                                                 *)
(***************************************************************************)
\* buffer holds the first k fields, or is too small for them.
Filled(buffer, sizes, k, buflen) ==
    /\ buffer \in Buffers
    /\ buffer.ok <=> Sums(sizes)[k] <= buflen
    /\ buffer.ok =>
          /\ buffer.ptr = Sums(sizes)[k] /\ buffer.ptr + buffer.remain = buflen
          /\ InPlace(buffer.put, sizes, k, buffer.ptr)

LEMMA BufferFacts ==
    ASSUME NEW buffer \in Buffers
    PROVE  /\ buffer.ptr \in Nat /\ buffer.remain \in Nat /\ buffer.put \in Seq(Fields)
           /\ buffer.ok \in BOOLEAN
           /\ buffer = [ptr |-> buffer.ptr, remain |-> buffer.remain,
                        put |-> buffer.put, ok |-> buffer.ok]
           /\ [buffer EXCEPT !.ok = FALSE] \in Buffers
           /\ ~[buffer EXCEPT !.ok = FALSE].ok
BY DEF Buffers

\* One turn of push_string.
LEMMA PushFills ==
    ASSUME NEW sizes \in Seq(Nat), NEW k \in 0 .. Len(sizes) - 1, NEW buflen \in Nat,
           NEW buffer, NEW length \in Nat, sizes[k + 1] = length + 1,
           Filled(buffer, sizes, k, buflen)
    PROVE  Filled(push_string(buffer, length), sizes, k + 1, buflen)
<1>1. k + 1 \in 1 .. Len(sizes) /\ (k + 1) - 1 = k /\ k \in 0 .. Len(sizes)
      /\ k + 1 \in 0 .. Len(sizes) /\ k \in Nat
  OBVIOUS
<1>2. /\ Sums(sizes)[k + 1] = Sums(sizes)[k] + (length + 1)
      /\ Sums(sizes)[k] \in Nat /\ Sums(sizes)[k + 1] \in Nat
  BY <1>1, SumFacts
<1>3. /\ buffer \in Buffers
      /\ buffer.ok <=> Sums(sizes)[k] <= buflen
      /\ buffer.ok =>
          /\ buffer.ptr = Sums(sizes)[k] /\ buffer.ptr + buffer.remain = buflen
          /\ InPlace(buffer.put, sizes, k, buffer.ptr)
  BY DEF Filled
<1>4. buffer.ptr \in Nat /\ buffer.remain \in Nat /\ buffer.put \in Seq(Fields)
  BY <1>3, BufferFacts
<1>5. CASE ~buffer.ok \/ length + 1 > buffer.remain
  <2>1. push_string(buffer, length) = [buffer EXCEPT !.ok = FALSE]
    BY <1>5 DEF push_string
  <2>2. ~(Sums(sizes)[k + 1] <= buflen)
    <3>1. CASE ~buffer.ok
      BY <1>2, <1>3, <3>1
    <3>2. CASE buffer.ok /\ length + 1 > buffer.remain
      <4>1. Sums(sizes)[k] + buffer.remain = buflen
        BY <1>3, <3>2
      <4> DEFINE sum == Sums(sizes)[k]
                 next == Sums(sizes)[k + 1]
                 room == buffer.remain
      <4>2. /\ sum \in Nat /\ next = sum + (length + 1) /\ room \in Nat
            /\ sum + room = buflen /\ length + 1 > room
        BY <1>2, <1>4, <3>2, <4>1
      <4> HIDE DEF sum, next, room
      <4>3. ~(next <= buflen)
        BY <4>2
      <4> QED
        BY <4>3 DEF next
    <3> QED
      BY <1>5, <3>1, <3>2
  <2> QED
    BY <1>3, <2>1, <2>2, BufferFacts DEF Filled
<1>6. CASE ~(~buffer.ok \/ length + 1 > buffer.remain)
  <2> DEFINE field == [from |-> buffer.ptr, size |-> length + 1]
             put == Append(buffer.put, field)
             ptr == buffer.ptr + (length + 1)
             remain == buffer.remain - (length + 1)
             next == [ptr |-> ptr, remain |-> remain, put |-> put, ok |-> TRUE]
  <2>1. push_string(buffer, length) = next
    BY <1>6 DEF push_string
  <2>2. put \in Seq(Fields) /\ InPlace(put, sizes, k + 1, ptr)
    <3>1. InPlace(buffer.put, sizes, k, buffer.ptr) /\ length + 1 \in Nat
      BY <1>3, <1>6
    <3> HIDE DEF field
    <3> QED
      BY <1>1, <1>4, <3>1, InPlaceAppend DEF field
  <2>3. ptr \in Nat /\ remain \in Nat /\ ptr + remain = buflen
        /\ ptr = Sums(sizes)[k + 1]
    <3> DEFINE from == buffer.ptr
               room == buffer.remain
               sum == Sums(sizes)[k + 1]
    <3>1. /\ from \in Nat /\ room \in Nat /\ length + 1 <= room
          /\ from + room = buflen /\ sum = from + (length + 1)
      BY <1>2, <1>3, <1>4, <1>6
    <3>2. ptr = from + (length + 1) /\ remain = room - (length + 1)
      OBVIOUS
    <3> HIDE DEF from, room, sum, ptr, remain
    <3>3. /\ ptr \in Nat /\ remain \in Nat /\ ptr + remain = buflen
          /\ ptr = sum
      BY <3>1, <3>2
    <3> QED
      BY <3>3 DEF sum
  <2>4. Sums(sizes)[k + 1] <= buflen
    BY <2>3
  <2> HIDE DEF put, ptr, remain
  <2>5. /\ next \in Buffers /\ next.ok /\ next.ptr = ptr /\ next.remain = remain
        /\ next.put = put
    BY <2>2, <2>3 DEF Buffers
  <2> HIDE DEF next
  <2> QED
    BY <2>1, <2>2, <2>3, <2>4, <2>5 DEF Filled
<1> QED
  BY <1>5, <1>6

IsAfter(after, strings, buflen, k) ==
    after = [i \in 0 .. k |->
                IF i = 0 THEN Start(buflen) ELSE push_string(after[i - 1], strings[i])]

LEMMA AfterExists ==
    ASSUME NEW strings, NEW buflen, NEW len \in Nat
    PROVE  \E after : IsAfter(after, strings, buflen, len)
<1> DEFINE S == {k \in Nat : \E after : IsAfter(after, strings, buflen, k)}
<1>1. 0 \in S
  <2> DEFINE after == [i \in 0 .. 0 |-> Start(buflen)]
  <2>1. after = [i \in 0 .. 0 |-> IF i = 0 THEN Start(buflen)
                                  ELSE push_string(after[i - 1], strings[i])]
    OBVIOUS
  <2> QED
    BY <2>1 DEF IsAfter
<1>2. ASSUME NEW k \in Nat, k \in S PROVE k + 1 \in S
  <2>1. PICK after : after = [i \in 0 .. k |-> IF i = 0 THEN Start(buflen)
                                               ELSE push_string(after[i - 1], strings[i])]
    BY <1>2 DEF IsAfter
  <2> DEFINE next == [i \in 0 .. k + 1 |->
                         IF i = k + 1 THEN push_string(after[k], strings[k + 1])
                         ELSE after[i]]
  <2>2. \A i \in 0 .. k : next[i] = after[i]
    OBVIOUS
  <2>3. ASSUME NEW i \in 0 .. k + 1
        PROVE  next[i] = IF i = 0 THEN Start(buflen)
                         ELSE push_string(next[i - 1], strings[i])
    <3>1. CASE i = k + 1
      BY <2>2, <3>1
    <3>2. CASE i \in 0 .. k /\ i # 0
      <4>1. i - 1 \in 0 .. k /\ after[i] = push_string(after[i - 1], strings[i])
        BY <2>1, <3>2
      <4> QED
        BY <2>2, <3>2, <4>1
    <3>3. CASE i = 0
      BY <2>1, <2>2, <3>3
    <3> QED
      BY <3>1, <3>2, <3>3
  <2>4. next = [i \in 0 .. k + 1 |-> IF i = 0 THEN Start(buflen)
                                     ELSE push_string(next[i - 1], strings[i])]
    BY <2>3
  <2> HIDE DEF next
  <2> QED
    BY <2>4 DEF IsAfter
<1> HIDE DEF S
<1>3. len \in S
  BY <1>1, <1>2, Induction
<1> QED
  BY <1>3 DEF S

\* push_strings, for any strings and any buffer.
LEMMA StringsFill ==
    ASSUME NEW strings \in Seq(Nat), NEW sizes \in Seq(Nat), Len(sizes) = Len(strings),
           \A i \in 1 .. Len(strings) : sizes[i] = strings[i] + 1,
           NEW buflen \in Nat
    PROVE  Filled(push_strings(strings, buflen), sizes, Len(sizes), buflen)
<1> DEFINE len == Len(strings)
           after == CHOOSE after : IsAfter(after, strings, buflen, len)
<1>1. len \in Nat
  OBVIOUS
<1>2. IsAfter(after, strings, buflen, len)
  BY <1>1, AfterExists
<1>3. push_strings(strings, buflen) = after[len]
  BY DEF push_strings, IsAfter
<1> HIDE DEF after
<1> DEFINE S == {k \in Nat : k <= len => Filled(after[k], sizes, k, buflen)}
<1>4. 0 \in S
  <2>1. after[0] = Start(buflen)
    BY <1>1, <1>2 DEF IsAfter
  <2>2. Start(buflen) = [ptr |-> 0, remain |-> buflen, put |-> <<>>, ok |-> TRUE]
        /\ <<>> \in Seq(Fields) /\ Len(<<>>) = 0
    BY DEF Start
  <2>3. Sums(sizes)[0] = 0 /\ 0 <= buflen
    BY SumFacts
  <2>4. InPlace(<<>>, sizes, 0, 0)
    BY <2>2 DEF InPlace
  <2>5. Filled(Start(buflen), sizes, 0, buflen)
    BY <2>2, <2>3, <2>4 DEF Filled, Buffers
  <2> QED
    BY <2>1, <2>5
<1>5. ASSUME NEW k \in Nat, k \in S PROVE k + 1 \in S
  <2>1. CASE k + 1 <= len
    <3>1. k \in 0 .. Len(sizes) - 1 /\ k + 1 \in 1 .. len
      BY <1>1, <2>1
    <3>2. after[k + 1] = push_string(after[k], strings[k + 1])
      BY <1>1, <1>2, <3>1 DEF IsAfter
    <3>3. strings[k + 1] \in Nat /\ sizes[k + 1] = strings[k + 1] + 1
      BY <3>1
    <3>4. Filled(after[k], sizes, k, buflen)
      BY <1>1, <1>5, <2>1
    <3>5. Filled(after[k + 1], sizes, k + 1, buflen)
      BY <3>1, <3>2, <3>3, <3>4, PushFills
    <3> QED
      BY <3>5
  <2>2. CASE ~(k + 1 <= len)
    BY <2>2
  <2> QED
    BY <2>1, <2>2
<1> HIDE DEF S
<1>6. len \in S
  BY <1>1, <1>4, <1>5, Induction
<1> QED
  BY <1>1, <1>3, <1>6 DEF S

-----------------------------------------------------------------------------
(***************************************************************************)
(* Entries                                                                 *)
(***************************************************************************)
LEMMA FilledIsPacked ==
    ASSUME NEW sizes \in Seq(Nat), NEW buflen \in Nat, NEW buffer,
           Filled(buffer, sizes, Len(sizes), buflen)
    PROVE  PackedIfItFits(buffer, sizes, buflen)
<1>1. buffer.ok <=> Total(sizes) <= buflen
  BY SumFacts DEF Filled
<1>2. ASSUME buffer.ok PROVE Packed(buffer, sizes, buflen)
  <2>1. /\ buffer \in Buffers /\ buffer.ptr + buffer.remain = buflen
        /\ InPlace(buffer.put, sizes, Len(sizes), buffer.ptr)
    BY <1>2 DEF Filled
  <2>2. /\ buffer.put \in Seq(Fields) /\ buffer.ptr \in Nat /\ buffer.remain \in Nat
        /\ buffer.ptr <= buflen
    <3>1. /\ buffer.put \in Seq(Fields) /\ buffer.ptr \in Nat /\ buffer.remain \in Nat
      BY <2>1, BufferFacts
    <3> QED
      BY <2>1, <3>1
  <2> QED
    BY <2>1, <2>2, InPlaceIsPacked
<1> QED
  BY <1>1, <1>2 DEF PackedIfItFits

\* push_passwd: the strings and nothing else.
LEMMA PasswdIsPacked ==
    ASSUME NEW user, user.login \in Logins, NEW buflen \in Nat
    PROVE  PackedIfItFits(push_passwd(user, buflen), PasswdSizes(user), buflen)
<1> DEFINE strings == <<Length[user.login], 1, TextLength, TextLength, TextLength>>
<1>1. Length[user.login] \in Nat /\ TextLength \in Nat
  BY BufferAssumption
<1>2. strings \in Seq(Nat) /\ PasswdSizes(user) \in Seq(Nat)
      /\ Len(strings) = 5 /\ Len(PasswdSizes(user)) = 5
  BY <1>1 DEF PasswdSizes
<1>3. \A i \in 1 .. 5 : PasswdSizes(user)[i] = strings[i] + 1
  BY <1>1 DEF PasswdSizes
<1>4. push_passwd(user, buflen) = push_strings(strings, buflen)
  BY DEF push_passwd
<1> HIDE DEF strings
<1> QED
  BY <1>2, <1>3, <1>4, StringsFill, FilledIsPacked

Joined(s, t) == s \o t

LEMMA JoinedFacts ==
    ASSUME NEW s \in Seq(Nat), NEW t \in Seq(Nat)
    PROVE  /\ Joined(s, t) \in Seq(Nat) /\ Len(Joined(s, t)) = Len(s) + Len(t)
           /\ \A i \in 1 .. Len(s) : Joined(s, t)[i] = s[i]
           /\ \A i \in 1 .. Len(t) : Joined(s, t)[Len(s) + i] = t[i]
<1>1. Len(s) \in Nat /\ Len(t) \in Nat
  OBVIOUS
<1>2. /\ s \o t \in Seq(Nat) /\ Len(s \o t) = Len(s) + Len(t)
      /\ \A i \in 1 .. Len(s) + Len(t) :
            (s \o t)[i] = IF i <= Len(s) THEN s[i] ELSE t[i - Len(s)]
  BY ConcatProperties
<1>3. ASSUME NEW i \in 1 .. Len(s) PROVE (s \o t)[i] = s[i]
  BY <1>1, <1>2
<1>4. ASSUME NEW i \in 1 .. Len(t) PROVE (s \o t)[Len(s) + i] = t[i]
  <2>1. /\ Len(s) + i \in 1 .. Len(s) + Len(t) /\ ~(Len(s) + i <= Len(s))
        /\ (Len(s) + i) - Len(s) = i
    BY <1>1
  <2> QED
    BY <1>2, <2>1
<1> QED
  BY <1>2, <1>3, <1>4 DEF Joined

\* The strings of a group and the sizes of its fields.
LEMMA GroupFields ==
    ASSUME NEW row \in Rows
    PROVE  LET len == Len(row.members)
               lengths == [i \in DOMAIN row.members |-> Length[row.members[i]]]
               strings == <<Length[row.name], 1>> \o lengths
               sizes == GroupSizes(row)
           IN  /\ len \in Nat
               /\ strings \in Seq(Nat) /\ Len(strings) = len + 2
               /\ sizes \in Seq(Nat) /\ Len(sizes) = len + 3
               /\ \A i \in 1 .. len + 2 : sizes[i] = strings[i] + 1
               /\ sizes[len + 3] = Word * (len + 1)
<1> DEFINE len == Len(row.members)
           lengths == [i \in 1 .. len |-> Length[row.members[i]]]
           more == [i \in 1 .. len |-> Length[row.members[i]] + 1]
           first == <<Length[row.name], 1>>
           firsts == <<Length[row.name] + 1, 2>>
           last == <<Word * (len + 1)>>
<1>1. row.name \in GroupNames /\ row.members \in Seq(Logins)
  BY DEF Rows
<1>2. len \in Nat /\ DOMAIN row.members = 1 .. len
      /\ \A i \in 1 .. len : row.members[i] \in Logins
  BY <1>1
<1>3. /\ Length[row.name] \in Nat
      /\ \A i \in 1 .. len : Length[row.members[i]] \in Nat
  BY <1>1, <1>2, BufferAssumption
<1>4. Word * (len + 1) \in Nat
  <2>1. \A a, b \in Nat : a * b \in Nat
    OBVIOUS
  <2>2. Word \in Nat /\ len + 1 \in Nat
    BY <1>2, BufferAssumption
  <2> HIDE DEF len
  <2> QED
    BY <2>1, <2>2
<1>5. /\ GroupSizes(row) = (firsts \o more) \o last
      /\ [i \in DOMAIN row.members |-> Length[row.members[i]]] = lengths
  BY <1>2 DEF GroupSizes
<1> DEFINE word == Word * (len + 1)
<1>6. last = <<word>> /\ word \in Nat
  BY <1>4
<1> HIDE DEF len, word, last
<1>7. /\ lengths \in Seq(Nat) /\ Len(lengths) = len
      /\ \A i \in 1 .. len : lengths[i] = Length[row.members[i]]
  BY <1>2, <1>3
<1>8. /\ more \in Seq(Nat) /\ Len(more) = len
      /\ \A i \in 1 .. len : more[i] = Length[row.members[i]] + 1
  BY <1>2, <1>3
<1>9. /\ first \in Seq(Nat) /\ Len(first) = 2
      /\ first[1] = Length[row.name] /\ first[2] = 1
      /\ firsts \in Seq(Nat) /\ Len(firsts) = 2
      /\ firsts[1] = Length[row.name] + 1 /\ firsts[2] = 2
      /\ last \in Seq(Nat) /\ Len(last) = 1 /\ last[1] = word
  BY <1>3, <1>6
<1> HIDE DEF lengths, more, first, firsts
<1> DEFINE strings == Joined(first, lengths)
           head == Joined(firsts, more)
           sizes == Joined(head, last)
<1>10. strings = first \o lengths /\ sizes = (firsts \o more) \o last
  BY DEF Joined, strings, head, sizes
<1> HIDE DEF strings, head, sizes
<1>11. /\ strings \in Seq(Nat) /\ Len(strings) = 2 + len
       /\ \A i \in 1 .. 2 : strings[i] = first[i]
       /\ \A i \in 1 .. len : strings[2 + i] = lengths[i]
  <2>1. /\ strings \in Seq(Nat) /\ Len(strings) = Len(first) + Len(lengths)
        /\ \A i \in 1 .. Len(first) : strings[i] = first[i]
        /\ \A i \in 1 .. Len(lengths) : strings[Len(first) + i] = lengths[i]
    BY <1>7, <1>9, JoinedFacts DEF strings
  <2> QED
    BY <1>7, <1>9, <2>1
<1>12. /\ head \in Seq(Nat) /\ Len(head) = 2 + len
       /\ \A i \in 1 .. 2 : head[i] = firsts[i]
       /\ \A i \in 1 .. len : head[2 + i] = more[i]
  <2>1. /\ head \in Seq(Nat) /\ Len(head) = Len(firsts) + Len(more)
        /\ \A i \in 1 .. Len(firsts) : head[i] = firsts[i]
        /\ \A i \in 1 .. Len(more) : head[Len(firsts) + i] = more[i]
    BY <1>8, <1>9, JoinedFacts DEF head
  <2> QED
    BY <1>8, <1>9, <2>1
<1>13. /\ sizes \in Seq(Nat) /\ Len(sizes) = (2 + len) + 1
       /\ \A i \in 1 .. 2 + len : sizes[i] = head[i]
       /\ \A i \in 1 .. 1 : sizes[(2 + len) + i] = last[i]
  <2>1. /\ sizes \in Seq(Nat) /\ Len(sizes) = Len(head) + Len(last)
        /\ \A i \in 1 .. Len(head) : sizes[i] = head[i]
        /\ \A i \in 1 .. Len(last) : sizes[Len(head) + i] = last[i]
    BY <1>9, <1>12, JoinedFacts DEF sizes
  <2> QED
    BY <1>9, <1>12, <2>1
<1>14. ASSUME NEW i \in 1 .. len + 2 PROVE sizes[i] = strings[i] + 1
  <2>1. i \in 1 .. 2 + len
    BY <1>2
  <2> HIDE DEF word
  <2>2. CASE i \in 1 .. 2
    <3>1. sizes[i] = head[i] /\ head[i] = firsts[i] /\ strings[i] = first[i]
      BY <1>11, <1>12, <1>13, <2>1, <2>2
    <3>2. firsts[i] = first[i] + 1
      BY <1>3, <1>9, <2>2
    <3> QED
      BY <3>1, <3>2
  <2>4. CASE i \notin 1 .. 2
    <3>1. PICK j \in 1 .. len : i = 2 + j
      <4>1. i - 2 \in 1 .. len /\ i = 2 + (i - 2)
        BY <1>2, <2>4
      <4> QED
        BY <4>1
    <3>2. strings[i] = lengths[j] /\ head[i] = more[j] /\ sizes[i] = head[i]
      BY <1>11, <1>12, <1>13, <2>1, <3>1
    <3> QED
      BY <1>7, <1>8, <3>2
  <2> QED
    BY <2>1, <2>2, <2>4
<1>15. /\ sizes[len + 3] = word /\ Len(sizes) = len + 3 /\ Len(strings) = len + 2
  <2>1. (2 + len) + 1 = len + 3 /\ 2 + len = len + 2 /\ 1 \in 1 .. 1
    BY <1>2
  <2> QED
    BY <1>9, <1>11, <1>13, <2>1
<1> QED
  BY <1>2, <1>5, <1>10, <1>11, <1>13, <1>14, <1>15 DEF len, word, first

\* push_group: the table of members comes behind the strings.
LEMMA GroupIsPacked ==
    ASSUME NEW row \in Rows, NEW buflen \in Nat
    PROVE  PackedIfItFits(push_group(row, buflen), GroupSizes(row), buflen)
<1> DEFINE len == Len(row.members)
           strings == <<Length[row.name], 1>>
                         \o [i \in DOMAIN row.members |-> Length[row.members[i]]]
           sizes == GroupSizes(row)
           table == Word * (len + 1)
           buffer == push_strings(strings, buflen)
           field == [from |-> buffer.ptr, size |-> table]
           put == Append(buffer.put, field)
           result == push_group(row, buflen)
\* The strings, with their sizes.
<1>1. /\ len \in Nat
      /\ strings \in Seq(Nat) /\ Len(strings) = len + 2
      /\ sizes \in Seq(Nat) /\ Len(sizes) = len + 3
      /\ \A i \in 1 .. len + 2 : sizes[i] = strings[i] + 1
      /\ sizes[len + 3] = table
  BY GroupFields
<1>2. result = IF buffer.ok /\ table <= buffer.remain
               THEN [buffer EXCEPT !.put = put]
               ELSE [buffer EXCEPT !.ok = FALSE]
  BY DEF push_group, TableFits
<1> HIDE DEF len, strings, sizes, table, buffer, result
<1> DEFINE head == [i \in 1 .. len + 2 |-> sizes[i]]
<1>3. /\ head \in Seq(Nat) /\ Len(head) = len + 2
      /\ \A i \in 1 .. len + 2 : head[i] = sizes[i]
  <2>1. len + 2 \in Nat
    BY <1>1
  <2>2. ASSUME NEW i \in 1 .. len + 2 PROVE sizes[i] \in Nat
    <3>1. i \in 1 .. Len(sizes) /\ sizes \in Seq(Nat)
      BY <1>1
    <3> QED
      BY <3>1
  <2>3. head \in [1 .. len + 2 -> Nat]
    BY <2>2
  <2> QED
    BY <2>1, <2>3
<1>4. table \in Nat
  <2>1. len + 3 \in 1 .. Len(sizes)
    BY <1>1
  <2> QED
    BY <1>1, <2>1
<1> HIDE DEF head
<1>5. Filled(buffer, head, len + 2, buflen)
  <2>1. /\ Len(head) = Len(strings)
        /\ \A i \in 1 .. Len(strings) : head[i] = strings[i] + 1
    BY <1>1, <1>3
  <2>2. Filled(push_strings(strings, buflen), head, Len(head), buflen)
    BY <1>1, <1>3, <2>1, StringsFill
  <2> QED
    BY <1>3, <2>2 DEF buffer
\* The table adds its size to the total.
<1>6. Total(sizes) = Total(head) + table
  <2>1. /\ Len(sizes) = Len(head) + 1
        /\ \A i \in 1 .. Len(head) : sizes[i] = head[i]
    BY <1>1, <1>3
  <2>2. Total(sizes) = Total(head) + sizes[Len(sizes)]
    BY <1>1, <1>3, <2>1, TotalOfOneMore
  <2> QED
    BY <1>1, <2>2
<1>7. Total(head) = Sums(head)[len + 2] /\ Total(head) \in Nat
  <2>1. /\ Total(head) = Sums(head)[Len(head)]
        /\ \A i \in 0 .. Len(head) : Sums(head)[i] \in Nat
    BY <1>3, SumFacts
  <2>2. len + 2 \in 0 .. len + 2
    BY <1>1
  <2> QED
    BY <1>3, <2>1, <2>2
<1>8. /\ buffer \in Buffers
      /\ buffer.ok <=> Total(head) <= buflen
      /\ buffer.ok => /\ buffer.ptr = Total(head)
                      /\ buffer.ptr + buffer.remain = buflen
                      /\ InPlace(buffer.put, head, len + 2, buffer.ptr)
  BY <1>5, <1>7 DEF Filled
<1>9. buffer.ptr \in Nat /\ buffer.remain \in Nat /\ buffer.put \in Seq(Fields)
      /\ DOMAIN buffer = {"ptr", "remain", "put", "ok"}
  BY <1>8, BufferFacts DEF Buffers
<1>10. CASE buffer.ok /\ table <= buffer.remain
  <2>1. result = [buffer EXCEPT !.put = put]
    BY <1>2, <1>10
  <2>2. result.ok = buffer.ok /\ result.put = put
    BY <1>8, <2>1 DEF Buffers
  <2>3. Total(sizes) <= buflen /\ buffer.ptr + table <= buflen
        /\ buffer.ptr + table \in Nat
    BY <1>4, <1>6, <1>7, <1>8, <1>9, <1>10
  <2>4. InPlace(buffer.put, sizes, len + 2, buffer.ptr)
    BY <1>3, <1>8, <1>10 DEF InPlace
  <2>5. sizes[(len + 2) + 1] = table /\ len + 2 \in Nat /\ (len + 2) + 1 = Len(sizes)
    BY <1>1
  <2>6. put \in Seq(Fields) /\ InPlace(put, sizes, Len(sizes), buffer.ptr + table)
    BY <1>4, <1>9, <2>4, <2>5, InPlaceAppend
  <2> HIDE DEF put
  <2>7. Packed(result, sizes, buflen)
    BY <1>1, <2>2, <2>3, <2>6, InPlaceIsPacked
  <2> QED
    BY <1>10, <2>2, <2>3, <2>7 DEF PackedIfItFits, result, sizes
<1>11. CASE ~(buffer.ok /\ table <= buffer.remain)
  <2>1. result = [buffer EXCEPT !.ok = FALSE]
    BY <1>2, <1>11
  <2>2. ~result.ok
    BY <1>8, <2>1, BufferFacts
  <2>3. ~(Total(sizes) <= buflen)
    BY <1>4, <1>6, <1>7, <1>8, <1>9, <1>11
  <2> QED
    BY <2>2, <2>3 DEF PackedIfItFits, result, sizes
<1> QED
  BY <1>10, <1>11

-----------------------------------------------------------------------------
(***************************************************************************)
(* Every entry of a listing goes into a buffer that is large enough for    *)
(* it, and only into such a one: the fields follow one another, the table  *)
(* of members with its null comes last, and none passes the end.           *)
(***************************************************************************)
THEOREM EntriesPacked == Spec => []EntriesArePacked
<1>1. RInv => EntriesArePacked
  <2> SUFFICES ASSUME RInv, NEW buflen \in 0 .. MaxBuffer
               PROVE  /\ \A row \in Range(rows) :
                            PackedIfItFits(push_group(row, buflen), GroupSizes(row), buflen)
                      /\ \A user \in Range(users) :
                            PackedIfItFits(push_passwd(user, buflen), PasswdSizes(user), buflen)
    BY DEF EntriesArePacked
  <2>1. buflen \in Nat /\ rows \in Seq(Rows) /\ users \in Seq(UserDocs \ {Bad})
    BY BufferAssumption DEF RInv, RecordsTypeOK
  <2>2. ASSUME NEW row \in Range(rows) PROVE row \in Rows
    BY <2>1 DEF Range
  <2>3. ASSUME NEW user \in Range(users) PROVE user.login \in Logins
    <3>1. PICK i \in 1 .. Len(users) : user = users[i]
      BY <2>1 DEF Range
    <3>2. user \in UserDocs \ {Bad} /\ ValidUser(user)
      BY <2>1, <3>1 DEF RInv, StoredAreValid
    <3> QED
      BY <3>2, RecordsAssumption DEF ValidUser
  <2> QED
    BY <2>1, <2>2, <2>3, GroupIsPacked, PasswdIsPacked
<1> QED
  BY <1>1, RecordsInvariance, PTL

=============================================================================
