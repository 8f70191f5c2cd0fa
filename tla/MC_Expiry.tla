------------------------------ MODULE MC_Expiry ------------------------------
EXTENDS Reminders

CONSTANTS overview, config, s1, s2, u1, a1, a2, d1, d2

New == {"pwdEndTime"}

\* Probes and resets; probes of a directory that changes; self-tests; the tasks,
\* with failures of the database and the mail, of the directory, and with none.
From(m, o, n, spent) == [menu |-> m, overlay |-> o, names |-> n, changes |-> spent]
MC_Starts ==
  {From({"ask", "refresh", "search", "crash"}, "loaded", Names, 0),
   From({"ask", "refresh", "reconfigure", "config"}, "loaded", {}, 2),
   From({"selftest", "call", "lost", "crash"}, "default", New, 0),
   From({"ask", "selftest", "call"}, "absent", {}, 0),
   From({"selftest", "reconfigure"}, "loaded", New, 1),
   From({AccountTask, "entry", "time", "database", "mail", "crash"}, "default", New, 1),
   From({AccountTask, "entry", "time", "database"}, "default", New, 0),
   From({AccountTask, "entry", "listing", "recipients", "mail"}, "default", New, 1),
   From({PasswordTask, "policy", "shadow", "time", "database", "listing", "mail", "crash"},
        "default", New, 1),
   From({AccountTask, "refresh", "reconfigure", "entry", "time"}, "default", New, 0),
   From({PasswordTask, "policy", "time"}, "default", {}, 0)}
MC_Callers == {AccountTask, overview, config}
MC_Tests == {s1, s2}
MC_Users == {u1}
MC_Admins == {a1, a2}
MC_Dates == {d1, d2}
=============================================================================
