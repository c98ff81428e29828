-------------------------------- MODULE Codecs ---------------------------------
(***************************************************************************)
(* caelestia::settings::ValueCodec: an option is written into the file and *)
(* read back by the codec of its type; an option with allowedTypes by a    *)
(* union, whose alternatives are tried in their order.  Values and JSON    *)
(* values are tuples that begin with their kind; a number is counted in    *)
(* halves.  An option is loaded, written by QML and saved.                 *)
(***************************************************************************)
EXTENDS Integers, Sequences, SequencesExt

CONSTANTS Numbers,  \* numbers that may stand in a file, in halves
          IntMax,   \* the largest int; the smallest is -IntMax - 1
          Strings,
          Keys,     \* string |-> the enumerator it names whatever its case
          MaxUnion, \* alternatives of a union at most
          MaxSteps  \* bound: writes and restarts

Base == {"Bool", "Int", "Real", "String", "Enum", "VariantList", "VariantMap", "StringList", "RealList"}
Types == UNION {{t \in [1 .. n -> Base] : IsInjective(t)} : n \in 1 .. MaxUnion} \* 1: no union

Scalars == {<<"null">>, <<"object", "o">>} \cup {<<"bool", b>> : b \in BOOLEAN}
           \cup {<<"number", n>> : n \in Numbers} \cup {<<"string", s>> : s \in Strings}
Json == Scalars \cup {<<"array", a>> : a \in UNION {[1 .. n -> Scalars] : n \in 0 .. 2}}

Unset == <<"Unset">>

VARIABLES type,  \* of the option, its alternatives
          value, \* of the option
          file,  \* what the file has for it, <<"undefined">> when it has nothing
          steps
vars == <<type, value, file, steps>>

----------------------------------------------------------------------------
(* encode of the plain codecs. *)
EncodePlain(v) ==
    CASE v[1] = "Bool" -> <<"bool", v[2]>>
      [] v[1] = "Int" -> <<"number", 2 * v[2]>>
      [] v[1] = "Real" -> <<"number", v[2]>>
      [] v[1] \in {"String", "Enum"} -> <<"string", v[2]>>
      [] v[1] = "VariantList" -> <<"array", v[2]>>
      [] v[1] = "VariantMap" -> <<"object", v[2]>>
      [] v[1] = "StringList" -> <<"array", [i \in DOMAIN v[2] |-> <<"string", v[2][i]>>]>>
      [] v[1] = "RealList" -> <<"array", [i \in DOMAIN v[2] |-> <<"number", v[2][i]>>]>>

(* UnionCodec::encode goes by the type of the value. *)
Encode(t, v) == IF v = Unset THEN <<"undefined">> ELSE EncodePlain(v)

(* Results of decode: a value, or an error of a depth, and whether it is a *)
(* mismatch of types.                                                      *)
Accepted(v) == [ok |-> TRUE, value |-> v, depth |-> 0, mismatch |-> FALSE]
Error(depth, mismatch) == [ok |-> FALSE, value |-> Unset, depth |-> depth, mismatch |-> mismatch]

DecodeScalar(t, j) ==
    CASE t = "Bool" -> IF j[1] = "bool" THEN Accepted(<<t, j[2]>>) ELSE Error(0, TRUE)
      [] t = "Int" -> IF j[1] # "number" THEN Error(0, TRUE)
                      ELSE IF j[2] % 2 # 0 \/ j[2] < -2 * IntMax - 2 \/ j[2] > 2 * IntMax THEN Error(0, FALSE)
                      ELSE Accepted(<<t, j[2] \div 2>>)
      [] t = "Real" -> IF j[1] = "number" THEN Accepted(<<t, j[2]>>) ELSE Error(0, TRUE)
      [] t = "String" -> IF j[1] = "string" THEN Accepted(<<t, j[2]>>) ELSE Error(0, TRUE)
      [] t = "Enum" -> IF j[1] # "string" THEN Error(0, TRUE)
                       ELSE IF j[2] \in DOMAIN Keys THEN Accepted(<<t, Keys[j[2]]>>) ELSE Error(0, FALSE)
      [] t = "VariantList" -> IF j[1] = "array" THEN Accepted(<<t, j[2]>>) ELSE Error(0, TRUE)
      [] t = "VariantMap" -> IF j[1] = "object" THEN Accepted(<<t, j[2]>>) ELSE Error(0, TRUE)

First(S) == CHOOSE i \in S : \A k \in S : i <= k

(* ListCodec::decode: one bad element rejects the list. *)
DecodeList(t, element, j) ==
    IF j[1] # "array" THEN Error(0, TRUE)
    ELSE LET results == [i \in DOMAIN j[2] |-> DecodeScalar(element, j[2][i])]
             bad == {i \in DOMAIN results : ~results[i].ok}
         IN  IF bad = {} THEN Accepted(<<t, [i \in DOMAIN results |-> results[i].value[2]]>>)
             ELSE Error(results[First(bad)].depth + 1, results[First(bad)].mismatch)

DecodePlain(t, j) ==
    CASE t = "StringList" -> DecodeList(t, "String", j)
      [] t = "RealList" -> DecodeList(t, "Real", j)
      [] OTHER -> DecodeScalar(t, j)

(* Mutant: the last alternative that accepts the value wins. *)
DecodeLast(t, j) ==
    LET accept == {i \in DOMAIN t : DecodePlain(t[i], j).ok}
    IN  IF accept # {} THEN DecodePlain(t[CHOOSE i \in accept : \A k \in accept : i >= k], j)
        ELSE Error(0, \A i \in DOMAIN t : DecodePlain(t[i], j).mismatch)

(* UnionCodec::decode: the first that accepts wins; of the errors that are *)
(* no mere mismatch of the whole value the first of the deepest is         *)
(* reported.  One alternative is no union, and this is its own result.     *)
Decode(t, j) ==
    LET results == [i \in DOMAIN t |-> DecodePlain(t[i], j)]
        accept  == {i \in DOMAIN t : results[i].ok}
        errors  == {i \in DOMAIN t : ~(results[i].depth = 0 /\ results[i].mismatch)}
    IN  IF accept # {} THEN results[First(accept)]
        ELSE IF errors # {} THEN results[First({i \in errors : \A k \in errors : results[i].depth >= results[k].depth})]
        ELSE Error(0, TRUE)

(* Descriptor::accepts *)
Accepts(t, v) == IF v = Unset THEN Len(t) > 1 ELSE \E i \in DOMAIN t : v[1] = t[i]

----------------------------------------------------------------------------
Values == {Unset} \cup {<<"Bool", b>> : b \in BOOLEAN} \cup {<<"Int", n>> : n \in -IntMax - 1 .. IntMax}
          \cup {<<"Real", n>> : n \in Numbers} \cup {<<"String", s>> : s \in Strings}
          \cup {<<"Enum", Keys[s]>> : s \in DOMAIN Keys}
          \cup {<<"StringList", <<s>>>> : s \in Strings} \cup {<<"RealList", <<n>>>> : n \in Numbers}

(* The shell starts with what some program left in the file; a value that  *)
(* is rejected leaves the option unset.                                    *)
Init ==
    /\ type \in Types /\ file \in Json \cup {<<"undefined">>}
    /\ value = IF file = <<"undefined">> THEN Unset ELSE Decode(type, file).value
    /\ steps = 0

(* QML writes a value the option accepts, and it is saved. *)
Write(v) ==
    /\ Accepts(type, v) /\ v # value
    /\ value' = v /\ file' = Encode(type, v)
    /\ steps < MaxSteps /\ steps' = steps + 1
    /\ UNCHANGED type

(* The shell is started again with the file as it is. *)
Restart ==
    /\ value' = IF file = <<"undefined">> THEN Unset ELSE Decode(type, file).value
    /\ steps < MaxSteps /\ steps' = steps + 1
    /\ UNCHANGED <<type, file>>

Next == (\E v \in Values : Write(v)) \/ Restart

Spec == Init /\ [][Next]_vars

----------------------------------------------------------------------------
(* Which JSON values a type has. *)
Fits(t, j) ==
    CASE t = "Bool" -> j[1] = "bool"
      [] t = "Int" -> j[1] = "number" /\ \E n \in -IntMax - 1 .. IntMax : j[2] = 2 * n
      [] t = "Real" -> j[1] = "number"
      [] t = "String" -> j[1] = "string"
      [] t = "Enum" -> j[1] = "string" /\ j[2] \in DOMAIN Keys
      [] t = "VariantList" -> j[1] = "array"
      [] t = "VariantMap" -> j[1] = "object"
      [] t = "StringList" -> j[1] = "array" /\ \A i \in DOMAIN j[2] : j[2][i][1] = "string"
      [] t = "RealList" -> j[1] = "array" /\ \A i \in DOMAIN j[2] : j[2][i][1] = "number"

(* What is in the file is accepted exactly when one of the types has it,   *)
(* by the first of them; what an option holds is read back from what is    *)
(* saved of it, as the same value unless an earlier type has that JSON     *)
(* too (an integer of a union of reals and integers comes back as a real); *)
(* and saving what was read writes what was in the file, but for the case  *)
(* of an enumerator.                                                       *)
CodecsAgree ==
    file # <<"undefined">> =>
      \E result \in {Decode(type, file)}, fit \in {{i \in DOMAIN type : Fits(type[i], file)}} :
         /\ result.ok <=> fit # {}
         /\ result.ok => /\ \A i \in fit : \E k \in fit : k <= i /\ result.value[1] = type[k]
                         /\ result.value[1] # "Enum" => Encode(type, result.value) = file
                         /\ Decode(type, Encode(type, result.value)).ok
         /\ value # Unset /\ Encode(type, value) = file =>
               /\ result.ok
               /\ result.value = value
                  \/ \E i, k \in fit : i < k /\ type[k] = value[1] /\ type[i] = result.value[1]
=============================================================================
