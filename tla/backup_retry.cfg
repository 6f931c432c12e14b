SPECIFICATION Spec
INVARIANT InterruptedIsReconciled
