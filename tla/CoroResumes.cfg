\* The queue of main().
CONSTANT QueueSize = 2
SPECIFICATION Spec
INVARIANT CoroResumes
