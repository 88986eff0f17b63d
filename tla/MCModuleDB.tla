---------------------------- MODULE MCModuleDB ----------------------------
(* An instance of ModuleDB for TLC. *)
EXTENDS ModuleDB, TLC

CONSTANTS t1, t2, n1, n2, ta, tb, tc, r1, former, one, two

Symmetry == Permutations(Thread)

\* The file of n1 is to be upgraded or to be created, that of n2 has the new
\* version; or both are to be upgraded.
At(version, schema, rows) ==
  [Empty EXCEPT !.version = version, !.first = version, !.schema = schema, !.rows = rows,
                !.written = [t \in Table |-> IF t \in DOMAIN rows THEN rows[t] ELSE {}]]
Old == At(1, ta :> former @@ tb :> former @@ tc :> former, ta :> {r1} @@ tb :> {r1} @@ tc :> {r1})
OtherOld == At(1, tc :> former, tc :> {r1})
Current == At(New, <<>>, <<>>)
FirstFiles ==
  {n1 :> Old @@ n2 :> Current, n1 :> Empty @@ n2 :> Current, n1 :> Old @@ n2 :> OtherOld}

TwiceAndOnce == n1 :> 2 @@ n2 :> 1

\* Bounds: one call fewer where the file is to be created or both are to be upgraded.
ToCreate == disk[n1].first = 0
BothToUpgrade == disk[n1].first # 0 /\ disk[n2].first # New
Calls == calls[n1] + calls[n2]
FewerCalls == (ToCreate => Calls + faults <= 3) /\ (BothToUpgrade => Calls <= 2)

\* n1 updates ta and tc, but tc has no CREATE and is deleted; the name of tb ends
\* with that of ta.  n2 updates tc, of which n1 says nothing, and has a ta of
\* another form.
CreatesOf == n1 :> (ta :> one @@ tb :> one) @@ n2 :> (ta :> two @@ tc :> two)
NameSuffixes == ta :> {ta, tb} @@ tb :> {tb} @@ tc :> {tc}
UpdatesOf == n1 :> <<<<ta, tc>>>> @@ n2 :> <<<<tc>>>>
DeletesOf == n1 :> <<<<tc>>>> @@ n2 :> <<<<>>>>
===========================================================================
