---------------------------- MODULE MCDetective ----------------------------
(* Instances of Detective for TLC. *)
EXTENDS Detective, TLC

CONSTANTS f1, f2

MCFiles == <<f1, f2>>

\* A test of a class, with and without its path; one of a nested suite without a class,
\* in a file whose name begins with the other's; and a case without a name.
Login == [cls |-> <<"TestLogin">>, name |-> <<"logs in">>, path |-> None]
LoginThere == [Login EXCEPT !.path = <<"login.spec.ts">>]
Nested == [cls |-> None, name |-> <<"TestLogin", "logs in">>, path |-> <<"login.spec.tsx">>]
Unknown == [cls |-> None, name |-> <<"<unknown>">>, path |-> None]

MCIdent == {Login, LoginThere, Nested, Unknown}
MCBeneath == {<<LoginThere.path, Nested.path>>}

\* The burn-in of the nested test under the detective's key: a second path, and the
\* suite taken for a part of the class.
NestedId == <<"login.spec.tsx", "TestLogin", "logs in">>
MCBurnIns == {NestedId}
MCHealedAt == (NestedId :> None)

Report(kind, dated, els) == [kind |-> kind, dated |-> dated, els |-> els]
Case(i, tags) == [ident |-> i, tags |-> tags]
EmptySuite == Report("junit", TRUE, <<>>)
MCReports ==
  (f1 :> { Report("junit", TRUE, << Case(LoginThere, {"failure"}), Case(Nested, {"failure"}),
                                    Case(Unknown, {"failure"}), Case(Unknown, {"failure"}),
                                    Case(Unknown, {"error", "failure"}) >>),
           EmptySuite, Report("broken", TRUE, <<>>) } @@
   f2 :> { Report("junit", FALSE, << Case(Login, {}), Case(Unknown, {"skipped"}) >>),
           Report("unbindable", TRUE, <<>>) })

\* Both reports are there to begin with, from before the first moment.
MCFirstDisk ==
  {[f \in {f1, f2} |-> [report |-> CHOOSE r \in MCReports[f] : r.els # <<>>, mtime |-> 0,
                        stamp |-> IF f = f1 THEN 0 ELSE None]]}

Setting(w, m, e) == [window |-> w, minFails |-> m, includeErrors |-> e]
MCTunables == {Setting(1, 1, FALSE), Setting(1, 2, TRUE), Setting(1, 0, FALSE)}
MCFirstConfig == Setting(1, 1, FALSE)

FeederSymmetry == Permutations(Feeder)

=============================================================================
