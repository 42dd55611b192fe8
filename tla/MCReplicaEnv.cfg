\* Up to three replicas in the file and in the environment.
SPECIFICATION Spec
CONSTANT MaxNumber = 3
INVARIANT TypeOK
INVARIANT OwnOptions
CHECK_DEADLOCK FALSE
