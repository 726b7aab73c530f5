\* Two requests and the job on one assignment, one crash.
SPECIFICATION Spec
CONSTANTS
  None = None
  t1 = t1
  Assignments = {a1}
  Teachers = {t1}
  TeacherOf <- OneTeacher
  Users = {u1, u2}
  Job = j
  Workers = {j, w1, w2}
  Crashes = 1
SYMMETRY Symmetry
CHECK_DEADLOCK FALSE
INVARIANTS   JobRepairs EvictedWhenDone
