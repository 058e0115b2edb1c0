SPECIFICATION Spec
CONSTANTS
    Scenarios <- MCScenarios
INVARIANTS TypeOK AnsweredOnce ImageKnows InterruptsTold DataInOrder NoneStuck
