---------------------------- MODULE TypeLayout -----------------------------
(***************************************************************************)
(* The types of an LLVM module as the Datalog code sees them: what they    *)
(* are made of, where their parts lie, and when two of them are compatible *)
(* (datalog/points-to/type-compatibility.dl, and the relations of          *)
(* signatures.dl and schema/ that the rules on subobjects use).  Vector    *)
(* types, variadic functions, and the types fp128 and half, which are not  *)
(* even compatible with themselves, are left out.                          *)
(***************************************************************************)
EXTENDS Integers, Sequences, FiniteSets

CONSTANTS
  Type,       \* the types of the module
  Elements,   \* type -> the types it is made of; a function's return type first
  Kind,       \* type -> "pointer", "array", "struct", "function" or "scalar"
  Length,     \* array types -> type_has_size of their components
  Offset,     \* struct types -> struct_type_field_offset
  Size,       \* sized types -> type_has_size, in bytes
  i8          \* int8_type

ASSUME TypeLayoutAssumption ==
  /\ IsFiniteSet(Type)
  /\ Elements \in [Type -> Seq(Type)]
  /\ \A t \in Type : Kind[t] \in {"pointer", "array"} => Len(Elements[t]) = 1
  /\ Size \in [DOMAIN Size -> Nat]
  /\ \A t \in Type : Kind[t] = "struct" =>
        /\ Offset[t] \in [DOMAIN Elements[t] -> Nat]
        /\ Elements[t] # <<>> => Offset[t][1] = 0

IsPointer(t) == Kind[t] = "pointer"
IsArray(t) == Kind[t] = "array"
IsStruct(t) == Kind[t] = "struct"
IsSized(t) == t \in DOMAIN Size

(* pointer_type_has_component and array_type_has_component                 *)
Component(t) == Elements[t][1]

-----------------------------------------------------------------------------
(* Pairs that are compatible because the pairs in known are.  Function     *)
(* types without parameters are compatible with all that return the same.  *)
Comparable(t, u) ==
  /\ Kind[t] = Kind[u]
  /\ \/ Len(Elements[t]) = Len(Elements[u])
     \/ Kind[t] = "function" /\ Len(Elements[t]) = 1
  /\ IsArray(t) => Length[t] = Length[u]

CompatibleGiven(known, t, u) ==
  \/ t = u
  \/ /\ Elements[t] # <<>>
     /\ Comparable(t, u)
     /\ \A i \in DOMAIN Elements[t] : <<Elements[t][i], Elements[u][i]>> \in known
  \/ /\ IsPointer(t) /\ IsPointer(u)
     /\ i8 \in {Component(t), Component(u)}

(* A pair is derived from pairs derived before it, so as many rounds as    *)
(* there are pairs suffice.                                                *)
type_compatible ==
  LET after[n \in Nat] ==
        IF n = 0 THEN {}
        ELSE LET known == after[n - 1]
             IN {p \in Type \X Type : CompatibleGiven(known, p[1], p[2])}
  IN after[Cardinality(Type) * Cardinality(Type)]

Compatible(t, u) == <<t, u>> \in type_compatible

(* type_has_subelement looks through arrays and structs, not pointers.     *)
type_has_subelement ==
  LET after[n \in Nat] ==
        IF n = 0 THEN {<<t, t>> : t \in Type}
        ELSE LET known == after[n - 1]
             IN known \cup {p \in Type \X Type :
                              /\ IsArray(p[1]) \/ IsStruct(p[1])
                              /\ \E i \in DOMAIN Elements[p[1]] :
                                    <<Elements[p[1]][i], p[2]>> \in known}
  IN after[Cardinality(Type)]

type_contains_pointer(t) == \E u \in Type : IsPointer(u) /\ <<t, u>> \in type_has_subelement
=============================================================================
