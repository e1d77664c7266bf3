\* Two references dropped by two threads.
CONSTANTS
  References = {r1, r2}
  Original = r1
  NoReference = NoReference
SPECIFICATION RefSpec
INVARIANT DestroyedAtMostOnce
